---- MODULE Spec2Model ----
(***************************************************************************)
(* KeyTalk: the inbox page (src/src/pages/inbox.tsx) and the chat page     *)
(* (src/src/pages/chat/[conversationId].tsx) over the two stores they      *)
(* share: the remote XMTP store (consent state and message history of each *)
(* conversation) and the localStorage overlay (last-read times, deleted    *)
(* ids, blocked ids), both scoped to one connected wallet address.         *)
(*                                                                         *)
(* Spec      the inbox page: loadConversations and the action handlers,    *)
(*           each handler run to its end (its trailing loadConversations   *)
(*           included); the chat page's handlers run to their end too.     *)
(* SpecChat  the chat page step by step: every await of loadConversation   *)
(*           and handleSendMessage that fetches the history is a step of   *)
(*           its own, interleaved with the message stream.                 *)
(***************************************************************************)
EXTENDS Integers, Sequences, FiniteSets, TLC

\* ------------------------------------------------------------------ bounds
NumConvs == 2     \* conversations known to the remote store
MaxMsgs == 1      \* messages ever sent, all conversations together
MaxTime == 1      \* the clock runs 0..MaxTime (milliseconds)
MaxReloads == 2   \* history fetches of the chat page in flight at once
MaxPasses == 2    \* passes of loadConversations in flight at once
MaxStreams == 3   \* dispatchers started since the document was loaded
MaxLen == 2       \* characters of a target typed into the new-conversation form
MaxWrites == 3    \* writes to localStorage while two owners are followed
MaxWindow == 2    \* messages of a conversation when the previews are derived
MaxCreations == 3 \* createXmtpClient calls pending at a time on the landing page

\* -------------------------------------------------------- program constants
InboxLimit == 10  \* c.messages({ limit: 10n })
ChatLimit == 50   \* convo.messages({ limit: 50n })

Convs == 1..NumConvs
Times == 0..MaxTime
NoTime == -1      \* getLastReadTime returns null
NoConv == 0       \* conversation === null
Blank == 0        \* a whitespace character of a target

Allowed == "Allowed"
Unknown == "Unknown"
Denied == "Denied"
ConsentState == {Allowed, Unknown, Denied}
Unrecognized == "Unrecognized"   \* a value of c.consentState() outside the enum

Me == "me"        \* xmtp.inboxId
Peer == "peer"

VARIABLES
    \* remote store
    consent,        \* consent[c]: what c.consentState() returns
    history,        \* history[c]: the messages of c, oldest first
    listsDenied,    \* whether conversations.list() enumerates Denied conversations
    \* localStorage overlay of the connected address
    lastRead,       \* xmtp_lastread_<address>_<c>, NoTime when absent
    deleted,        \* xmtp_deleted_<address>
    blocked,        \* xmtp_blocked_<address>
    now,            \* new Date()
    \* inbox page state
    conversations,  \* useState conversations (the inbox list)
    requests,       \* useState requests
    blockedConvos,  \* useState blockedConvos
    \* chat page state
    conversation,   \* useState conversation (its id), NoConv when null
    messages,       \* useState messages
    reloads,        \* history fetches in flight: [stage, conv, msgs]
    \* history of the run
    fresh,          \* the lists were published from the stores as they are now
    last,           \* the handler that completed in the last step: [op, conv, from]
    rt,             \* progress of an Accept, Deny, Unblock run in a row: [conv, n]
    denyDone,       \* ids whose Deny completed, with no Unblock, reopen or send since
    delivered,      \* messages the chat stream delivered for the open conversation
    dm,             \* the last handleStartDm: [target, reachable, calls]
    \* passes of loadConversations, step by step
    passes,         \* the passes in flight: [stage, todo, acc]
    dirty,          \* a store changed, or a pass met a failure, and no pass started since
    done,           \* the lists of the pass that published last
    \* session and message streams
    page,           \* the page that is mounted: "index", "inbox", "chat"
    xmtpClient,     \* lib/xmtp/store: a client is stored
    walletClient,   \* useWalletClient().data is defined
    isConnected,    \* useAccount().isConnected
    client,         \* useState client of the inbox page is set
    initializingRef, \* useRef initializingRef of the inbox page
    creating,       \* a createXmtpClient call of initializeXmtp is in flight
    streams,        \* the dispatchers started: [owner, stage, cancelled, failed, seen]
    current,        \* the dispatcher whose `cancelled` the pending cleanup sets, or 0
    \* overlay of two owners
    address,        \* useAccount().address of the latest render, NoOwner when undefined
    bound,          \* the address the closures of the last effect run hold
    localStorage,   \* window.localStorage: key -> [val, by]
    read,           \* the last read of a pass: [owner, by]
    writes,         \* writes to localStorage so far
    typed,          \* the value of the rename modal when handleRename last ran
    \* landing page
    initState,      \* "disconnected" | "initializing" | "ready" | "error"
    homeRef,        \* initializingRef.current of the landing page
    dbCleanupDone,  \* the leftover databases have been deleted
    racing,         \* createXmtpClient calls an initializeXmtp is awaiting
    orphans         \* createXmtpClient calls still pending after their timeout fired

remote == <<consent, history, listsDenied>>
overlay == <<lastRead, deleted, blocked>>
views == <<conversations, requests, blockedConvos>>
chat == <<conversation, messages, reloads>>
ghost == <<fresh, last, rt, denyDone, delivered, dm>>
inflight == <<passes, dirty, done>>
session == <<page, xmtpClient, walletClient, isConnected, client,
             initializingRef, creating, streams, current>>
stored == <<address, bound, localStorage, read, writes, typed>>
landing == <<initState, homeRef, dbCleanupDone, racing, orphans>>
vars == <<remote, overlay, now, views, chat, ghost, inflight, session, stored, landing>>

\* ------------------------------------------------------------ pure helpers
\* The ids of an id array of localStorage, in a fixed iteration order.
RECURSIVE SortedSeq(_)
SortedSeq(S) ==
    IF S = {} THEN <<>>
    ELSE LET m == CHOOSE x \in S : \A y \in S : x <= y
         IN <<m>> \o SortedSeq(S \ {m})

RECURSIVE Total(_, _)
Total(hist, S) ==
    IF S = {} THEN 0
    ELSE LET c == CHOOSE x \in S : TRUE
         IN Len(hist[c]) + Total(hist, S \ {c})

\* Every message of the remote store.
AllMessages(hist) == UNION {{hist[c][i] : i \in DOMAIN hist[c]} : c \in Convs}

\* c.messages({ limit }): the most recent `limit` messages, oldest first.
Window(h, limit) ==
    IF Len(h) <= limit THEN h ELSE SubSeq(h, Len(h) - limit + 1, Len(h))

\* messages.filter(msg => msg.senderInboxId !== myInboxId)
PeerMessages(msgs) == {i \in DOMAIN msgs : msgs[i].sender # Me}

\* messages.some(msg => msg.senderInboxId !== xmtp.inboxId)
HasPeerMessage(msgs) == \E i \in DOMAIN msgs : msgs[i].sender # Me

\* The unread count with msgSentAt >= lastReadTime in place of >.
UnreadCountInclusive(msgs, lastReadTime) ==
    IF lastReadTime # NoTime
    THEN Cardinality({i \in PeerMessages(msgs) : msgs[i].sentAt >= lastReadTime})
    ELSE Cardinality(PeerMessages(msgs))

\* The unread count of loadConversations.
UnreadCount(msgs, lastReadTime) ==
    IF lastReadTime # NoTime
    THEN Cardinality({i \in PeerMessages(msgs) : msgs[i].sentAt > lastReadTime})
    ELSE Cardinality(PeerMessages(msgs))

\* The text loadConversations extracts from a message content.
ContentText(content) ==
    IF content.kind = "string" THEN content.text
    ELSE IF content.kind = "object" /\ content.field \in {"text", "content"}
         THEN content.text
         ELSE ""

LastMessageContent(msgs) ==
    IF msgs = <<>> THEN "" ELSE ContentText(msgs[Len(msgs)].content)

LastMessageTime(msgs) ==
    IF msgs = <<>> THEN NoTime ELSE msgs[Len(msgs)].sentAt

\* The ConversationItem built for a listed conversation.
ListedItem(c, msgs, lastReadTime) ==
    [id |-> c,
     unreadCount |-> UnreadCount(msgs, lastReadTime),
     lastMessage |-> LastMessageContent(msgs),
     lastMessageTime |-> LastMessageTime(msgs)]

\* The ConversationItem built for an id of the blocked array.
BlockedItem(b, msgs) ==
    [id |-> b,
     unreadCount |-> 0,
     lastMessage |-> LastMessageContent(msgs),
     lastMessageTime |-> LastMessageTime(msgs)]

NoLists == [allowed |-> <<>>, requests |-> <<>>, blocked |-> <<>>]

\* An if-chain whose last branch pushes the item to the requests.
PushUnrecognized(acc, item, state, msgs) ==
    IF state = Allowed THEN [acc EXCEPT !.allowed = Append(@, item)]
    ELSE IF state = Denied THEN [acc EXCEPT !.blocked = Append(@, item)]
    ELSE IF state = Unknown /\ ~HasPeerMessage(msgs) THEN acc
    ELSE [acc EXCEPT !.requests = Append(@, item)]

\* "Sort conversations by consent state": where one listed item is pushed.
PushByConsent(acc, item, state, msgs) ==
    IF state = Allowed THEN [acc EXCEPT !.allowed = Append(@, item)]
    ELSE IF state = Unknown
         THEN IF HasPeerMessage(msgs)
              THEN [acc EXCEPT !.requests = Append(@, item)]
              ELSE acc
    ELSE IF state = Denied THEN [acc EXCEPT !.blocked = Append(@, item)]
    ELSE acc

\* conversations.list()
Listing(cons, ld) == SortedSeq({c \in Convs : cons[c] # Denied \/ ld})

\* for (const c of allConvosUpdated) { ... }
RECURSIVE ClassifyListed(_, _, _, _, _)
ClassifyListed(list, acc, cons, hist, lr) ==
    IF list = <<>> THEN acc
    ELSE LET c == Head(list)
             msgs == Window(hist[c], InboxLimit)
         IN ClassifyListed(Tail(list),
                PushByConsent(acc, ListedItem(c, msgs, lr[c]), cons[c], msgs),
                cons, hist, lr)

\* The same test read against the blockedConvos of the page state, which the
\* local array of loadConversations shadows.
AlreadyBlockedShown(acc, blockedId) ==
    \E i \in DOMAIN blockedConvos : blockedConvos[i].id = blockedId

\* blockedConvos.some(c => c.id === blockedId), on the local array.
AlreadyBlocked(acc, blockedId) ==
    \E i \in DOMAIN acc.blocked : acc.blocked[i].id = blockedId

\* for (const blockedId of blockedIds) { ... }
RECURSIVE LoadBlocked(_, _, _)
LoadBlocked(blockedIds, acc, hist) ==
    IF blockedIds = <<>> THEN acc
    ELSE LET b == Head(blockedIds)
         IN IF AlreadyBlocked(acc, b)
            THEN LoadBlocked(Tail(blockedIds), acc, hist)
            ELSE LoadBlocked(Tail(blockedIds),
                    [acc EXCEPT !.blocked =
                        Append(@, BlockedItem(b, Window(hist[b], InboxLimit)))],
                    hist)

\* The three lists one pass of loadConversations computes from the stores.
LoadLists(cons, hist, ld, lr, blk) ==
    LoadBlocked(SortedSeq(blk),
                ClassifyListed(Listing(cons, ld), NoLists, cons, hist, lr),
                hist)

\* A second list() from which the deleted ids are left out.
RelistedHidesDeleted(cons, ld, deletedIds) ==
    SelectSeq(Listing(cons, ld), LAMBDA c : c \notin deletedIds)

\* allConvosUpdated: the loop over getDeletedConvoIds() fetches and syncs
\* each deleted conversation and logs; conversations.list() is then called
\* again and its answer is what the pass classifies.
Relisted(cons, ld, deletedIds) == Listing(cons, ld)

\* The pass of loadConversations with its read of the deleted ids.
LoadListsChecked(cons, hist, ld, lr, blk, deletedIds) ==
    LoadBlocked(SortedSeq(blk),
                ClassifyListed(Relisted(cons, ld, deletedIds), NoLists, cons, hist, lr),
                hist)

\* The publish step with only setConversations taking effect.
PublishInboxFirst(r) ==
    /\ conversations' = r.allowed
    /\ UNCHANGED <<requests, blockedConvos>>

\* setConversations, setRequests, setBlockedConvos: three synchronous calls of
\* one continuation, which no other continuation can interleave.
Publish(r) ==
    /\ conversations' = r.allowed
    /\ requests' = r.requests
    /\ blockedConvos' = r.blocked

\* A message as the remote store records it.
NewMessage(c, sender, content) ==
    [id |-> Total(history, Convs) + 1, conv |-> c, sender |-> sender,
     sentAt |-> now, content |-> content]

StringContent(text) == [kind |-> "string", field |-> "", text |-> text]
PeerContents == {StringContent("hi")}

\* The owners: the addresses of two accounts of the wallet.
Owners == {"0xA", "0xB"}
NoOwner == ""

\* What the user types, a target of handleStartDm or a name of the rename
\* modal: a string of at most MaxLen characters, a character being the blank
\* or a non-blank one (as a target, the one-character address of the peer of
\* a conversation).
Chars == {Blank} \cup Convs
Targets == UNION {[1..n -> Chars] : n \in 0..MaxLen}

\* String.prototype.trim
RECURSIVE TrimStart(_)
TrimStart(t) ==
    IF t # <<>> /\ Head(t) = Blank THEN TrimStart(Tail(t)) ELSE t

RECURSIVE TrimEnd(_)
TrimEnd(t) ==
    IF t # <<>> /\ t[Len(t)] = Blank THEN TrimEnd(SubSeq(t, 1, Len(t) - 1)) ELSE t

\* handleNewDmSubmit and handleStartDm without their trim().
TrimKeeps(t) == t

Trim(t) == TrimEnd(TrimStart(t))

\* ------------------------------------------------- overlay of two owners
\* The localStorage helpers close over `address` of the render that defined
\* them.  The handlers the sidebar calls are those of the latest render; the
\* loadConversations the mount effect and its dispatcher call is that of the
\* render in which the effect last ran, and the effect runs again only when
\* walletClient or isConnected changes.
Fields == {"lastread", "nickname", "deleted", "blocked"}

\* The key of a field: `xmtp_lastread_${address}_${convoId}`,
\* `xmtp_nickname_${address}_${convoId}`, `xmtp_deleted_${address}`,
\* `xmtp_blocked_${address}`, as the sequence of the parts joined.
KeyOf(field, a, c) ==
    IF field \in {"lastread", "nickname"}
    THEN <<"xmtp_" \o field \o "_", a, "_", ToString(c)>>
    ELSE <<"xmtp_" \o field \o "_", a>>

Keys == {KeyOf(field, a, c) : field \in Fields, a \in Owners, c \in Convs}

\* An item: its value (the empty set for null, an instant, a nickname, the
\* ids of an array) and the owner who was connected when it was written.
NoItem == [val |-> {}, by |-> NoOwner]
Nicknames == {<<1>>}

SetItem(key, val) == [localStorage EXCEPT ![key] = [val |-> val, by |-> address]]
RemoveItem(key) == [localStorage EXCEPT ![key] = NoItem]
GetItem(a, key) == IF a = NoOwner THEN NoItem ELSE localStorage[key]

GetLastReadTime(a, c) == GetItem(a, KeyOf("lastread", a, c))
GetNickname(a, c) == GetItem(a, KeyOf("nickname", a, c))
GetDeletedConvoIds(a) == GetItem(a, KeyOf("deleted", a, NoConv))
GetBlockedConvoIds(a) == GetItem(a, KeyOf("blocked", a, NoConv))

SetLastReadTime(a, c) ==
    IF a = NoOwner THEN localStorage ELSE SetItem(KeyOf("lastread", a, c), {now})

\* setNickname storing the empty string of a blank name.
SetNicknameKeepsBlank(a, c, nickname) ==
    IF a = NoOwner THEN localStorage
    ELSE SetItem(KeyOf("nickname", a, c), {Trim(nickname)})

SetNickname(a, c, nickname) ==
    IF a = NoOwner THEN localStorage
    ELSE IF Trim(nickname) # <<>> THEN SetItem(KeyOf("nickname", a, c), {Trim(nickname)})
    ELSE RemoveItem(KeyOf("nickname", a, c))

AddDeletedConvoId(a, c) ==
    IF a = NoOwner \/ c \in GetDeletedConvoIds(a).val THEN localStorage
    ELSE SetItem(KeyOf("deleted", a, NoConv), GetDeletedConvoIds(a).val \cup {c})

RemoveDeletedConvoId(a, c) ==
    IF a = NoOwner THEN localStorage
    ELSE SetItem(KeyOf("deleted", a, NoConv), GetDeletedConvoIds(a).val \ {c})

AddBlockedConvoId(a, c) ==
    IF a = NoOwner \/ c \in GetBlockedConvoIds(a).val THEN localStorage
    ELSE SetItem(KeyOf("blocked", a, NoConv), GetBlockedConvoIds(a).val \cup {c})

RemoveBlockedConvoId(a, c) ==
    IF a = NoOwner THEN localStorage
    ELSE SetItem(KeyOf("blocked", a, NoConv), GetBlockedConvoIds(a).val \ {c})

\* No read yet.
NoRead == [owner |-> NoOwner, by |-> NoOwner]

\* ------------------------------------------------------------------- Init
\* The landing page as it mounts: nothing has been initialized.
NoLanding ==
    /\ initState = "disconnected"
    /\ homeRef = FALSE
    /\ dbCleanupDone = FALSE
    /\ racing = 0
    /\ orphans = 0

\* One owner is connected and has stored nothing.
OneOwner ==
    /\ address = "0xA"
    /\ bound = "0xA"
    /\ localStorage = [k \in Keys |-> NoItem]
    /\ read = NoRead
    /\ writes = 0
    /\ typed = <<>>

\* No handleStartDm has run.
NoDm == [target |-> <<>>, reachable |-> TRUE, calls |-> <<>>]

\* The session the inbox and chat pages run in once a client is stored and
\* the wallet is connected, before any dispatcher is followed.
SignedIn ==
    /\ page = "inbox"
    /\ xmtpClient = TRUE
    /\ walletClient = TRUE
    /\ isConnected = TRUE
    /\ client = TRUE
    /\ initializingRef = FALSE
    /\ creating = FALSE
    /\ streams = <<>>
    /\ current = 0

Init ==
    /\ consent = [c \in Convs |-> Unknown]
    /\ history = [c \in Convs |-> <<>>]
    /\ listsDenied \in BOOLEAN
    /\ lastRead = [c \in Convs |-> NoTime]
    /\ deleted = {}
    /\ blocked = {}
    /\ now = 0
    /\ conversations = <<>>
    /\ requests = <<>>
    /\ blockedConvos = <<>>
    /\ conversation = NoConv
    /\ messages = <<>>
    /\ reloads = {}
    /\ fresh = FALSE
    /\ last = [op |-> "other", conv |-> NoConv, from |-> Unknown]
    /\ rt = [conv |-> NoConv, n |-> 0]
    /\ denyDone = {}
    /\ delivered = {}
    /\ dm = NoDm
    /\ OneOwner
    /\ NoLanding
    /\ passes = {}
    /\ dirty = FALSE
    /\ done = NoLists
    /\ SignedIn

\* ------------------------------------------------------------ environment
\* The clock advances.
Tick ==
    /\ now < MaxTime
    /\ now' = now + 1
    /\ UNCHANGED <<remote, overlay, views, chat>>

\* The peer sends a message to conversation c.
PeerSend(c, content) ==
    /\ Total(history, Convs) < MaxMsgs
    /\ history' = [history EXCEPT ![c] = Append(@, NewMessage(c, Peer, content))]
    /\ UNCHANGED <<consent, listsDenied, overlay, now, views, chat>>

\* ------------------------------------------------------------- inbox page
\* The handlers take a conversation id and test neither its consent state nor
\* the list that shows it, and a click can land on an item of a list that a
\* refresh still in flight is about to replace: each handler is enabled for
\* every conversation, in every consent state.
\* loadConversations(xmtp), called by the mount effect.
LoadConversations ==
    /\ Publish(LoadLists(consent, history, listsDenied, lastRead, blocked))
    /\ UNCHANGED <<remote, overlay, now, chat>>

\* streamMessages: a message of the stream arrives and the lists are reloaded.
StreamMessages ==
    /\ AllMessages(history) # {}
    /\ Publish(LoadLists(consent, history, listsDenied, lastRead, blocked))
    /\ UNCHANGED <<remote, overlay, now, chat>>

\* handleAcceptRequest without its setLastReadTime.
AcceptKeepsLastRead(c, ok) ==
    IF ok
    THEN LET cons == [consent EXCEPT ![c] = Allowed]
         IN /\ consent' = cons
            /\ deleted' = deleted \ {c}
            /\ Publish(LoadLists(cons, history, listsDenied, lastRead, blocked))
            /\ UNCHANGED <<history, listsDenied, lastRead, blocked, now, chat>>
    ELSE UNCHANGED <<remote, overlay, now, views, chat>>

\* handleAcceptRequest(c); ok: updateConsentState resolved.
HandleAcceptRequest(c, ok) ==
    IF ok
    THEN LET cons == [consent EXCEPT ![c] = Allowed]
             lr == [lastRead EXCEPT ![c] = now]
         IN /\ consent' = cons
            /\ lastRead' = lr
            /\ deleted' = deleted \ {c}
            /\ Publish(LoadLists(cons, history, listsDenied, lr, blocked))
            /\ UNCHANGED <<history, listsDenied, blocked, now, chat>>
    ELSE UNCHANGED <<remote, overlay, now, views, chat>>

\* handleDenyRequest(c)
HandleDenyRequest(c, ok) ==
    IF ok
    THEN LET cons == [consent EXCEPT ![c] = Denied]
             blk == blocked \cup {c}
         IN /\ consent' = cons
            /\ blocked' = blk
            /\ Publish(LoadLists(cons, history, listsDenied, lastRead, blk))
            /\ UNCHANGED <<history, listsDenied, lastRead, deleted, now, chat>>
    ELSE UNCHANGED <<remote, overlay, now, views, chat>>

\* handleDeleteConversation without its updateConsentState.
DeleteKeepsConsent(c, ok) ==
    /\ deleted' = deleted \cup {c}
    /\ IF ok
       THEN Publish(LoadLists(consent, history, listsDenied, lastRead, blocked))
       ELSE UNCHANGED views
    /\ UNCHANGED <<remote, lastRead, blocked, now, chat>>

\* handleDeleteConversation(c): the id is recorded before the consent update.
HandleDeleteConversation(c, ok) ==
    /\ deleted' = deleted \cup {c}
    /\ IF ok
       THEN LET cons == [consent EXCEPT ![c] = Unknown]
            IN /\ consent' = cons
               /\ Publish(LoadLists(cons, history, listsDenied, lastRead, blocked))
       ELSE UNCHANGED <<consent, views>>
    /\ UNCHANGED <<history, listsDenied, lastRead, blocked, now, chat>>

\* handleUnblockConversation without its removeBlockedConvoId.
UnblockKeepsMarker(c, ok) ==
    /\ IF ok
       THEN LET cons == [consent EXCEPT ![c] = Unknown]
            IN /\ consent' = cons
               /\ Publish(LoadLists(cons, history, listsDenied, lastRead, blocked))
       ELSE UNCHANGED <<consent, views>>
    /\ UNCHANGED <<history, listsDenied, overlay, now, chat>>

\* handleUnblockConversation updating the consent state to Allowed.
UnblockAllows(c, ok) ==
    LET blk == blocked \ {c}
    IN /\ blocked' = blk
       /\ IF ok
          THEN LET cons == [consent EXCEPT ![c] = Allowed]
               IN /\ consent' = cons
                  /\ Publish(LoadLists(cons, history, listsDenied, lastRead, blk))
          ELSE UNCHANGED <<consent, views>>
       /\ UNCHANGED <<history, listsDenied, lastRead, deleted, now, chat>>

\* handleUnblockConversation(c): the id is removed before the consent update.
HandleUnblockConversation(c, ok) ==
    LET blk == blocked \ {c}
    IN /\ blocked' = blk
       /\ IF ok
          THEN LET cons == [consent EXCEPT ![c] = Unknown]
               IN /\ consent' = cons
                  /\ Publish(LoadLists(cons, history, listsDenied, lastRead, blk))
          ELSE UNCHANGED <<consent, views>>
       /\ UNCHANGED <<history, listsDenied, lastRead, deleted, now, chat>>

\* ----------------------------------------- a visit of the chat page, whole
\* markAsRead returning before its setItem.
MarkAsReadSkips(lr, c) == lr

\* markAsRead writing the start of the epoch in place of new Date().
MarkAsReadEpoch(lr, c) == [lr EXCEPT ![c] = 0]

\* markAsRead(address, c): the time of the call is stored, as an ISO string
\* of millisecond precision, which getLastReadTime parses back to the same
\* time.
MarkAsRead(lr, c) == [lr EXCEPT ![c] = now]

\* The consent state loadConversation leaves: Denied is reset to Unknown.
Reopened(state) == IF state = Denied THEN Unknown ELSE state

\* handleSendMessage without its updateConsentState.
AfterSendKeeps(state) == state

\* The consent state handleSendMessage leaves after a successful send when
\* state is what it read before the send.
AfterSend(state) == IF state \in {Unknown, Denied} THEN Allowed ELSE state

\* The inbox page is left for the chat page of c (Link href="/chat/<c>") and
\* entered again (onBack): loadConversation(xmtp, c) runs to its end, then, when
\* sent is set, handleSendMessage runs to its end with sendText resolving (a
\* send that throws changes nothing), then the chat page unmounts and the mount
\* effect of the inbox page calls loadConversations.  fromState is the consent
\* state the visit starts from.
Visit(c, fromState, sent) ==
    LET opened == Reopened(fromState)
        cons == [consent EXCEPT ![c] = IF sent THEN AfterSend(opened) ELSE opened]
        hist == IF sent
                THEN [history EXCEPT ![c] =
                         Append(@, NewMessage(c, Me, StringContent("yo")))]
                ELSE history
        lr == MarkAsRead(lastRead, c)
    IN /\ sent => Total(history, Convs) < MaxMsgs
       /\ consent' = cons
       /\ history' = hist
       /\ lastRead' = lr
       /\ Publish(LoadLists(cons, hist, listsDenied, lr, blocked))
       /\ UNCHANGED <<listsDenied, deleted, blocked, now, chat>>

ChatVisit(c, sent) == Visit(c, consent[c], sent)

\* handleStartDm(address of the peer of c): the conversation is fetched, a
\* Denied one is reset to Unknown, and router.push opens the chat page on it.
HandleStartDm(c, sent) ==
    Visit(c, IF consent[c] = Denied THEN Unknown ELSE consent[c], sent)

\* ------------------------------------------------------ history of the run
\* The handlers whose completion the run remembers.
Handlers == {"accept", "deny", "delete", "unblock"}
NoOp == [op |-> "other", conv |-> NoConv, from |-> Unknown]

\* What the run remembers of the step just taken: op ran on conversation c
\* and ended ok; pub: it published the three lists.  A loadConversations
\* that runs when the lists were already published from the same stores is
\* remembered as "again".
Track(op, c, ok, pub) ==
    LET same == remote' = remote /\ overlay' = overlay
    IN
    /\ last' = IF op \in Handlers /\ ok
               THEN [op |-> op, conv |-> c, from |-> consent[c]]
               ELSE IF op \in {"load", "stream"} /\ fresh
                    THEN [NoOp EXCEPT !.op = "again"]
                    ELSE NoOp
    /\ fresh' = IF pub THEN TRUE ELSE fresh /\ same
    /\ rt' = CASE op = "accept" /\ ok /\ consent[c] = Unknown /\ c \notin blocked
                    -> [conv |-> c, n |-> 1]
               [] op = "deny" /\ ok /\ rt = [conv |-> c, n |-> 1]
                    -> [conv |-> c, n |-> 2]
               [] op = "unblock" /\ ok /\ rt = [conv |-> c, n |-> 2]
                    -> [conv |-> c, n |-> 3]
               [] OTHER -> IF op = "tick" THEN rt ELSE [conv |-> NoConv, n |-> 0]
    /\ denyDone' = IF op = "deny" /\ ok THEN denyDone \cup {c}
                   ELSE IF op \in {"unblock", "open", "startdm"}
                        THEN denyDone \ {c}
                        ELSE denyDone
    /\ UNCHANGED <<delivered, dm, inflight, session, stored, landing>>

Next ==
    \/ Tick /\ Track("tick", NoConv, TRUE, FALSE)
    \/ \E c \in Convs, content \in PeerContents :
           PeerSend(c, content) /\ Track("peer", c, TRUE, FALSE)
    \/ LoadConversations /\ Track("load", NoConv, TRUE, TRUE)
    \/ StreamMessages /\ Track("stream", NoConv, TRUE, TRUE)
    \/ \E c \in Convs, ok \in BOOLEAN :
           HandleAcceptRequest(c, ok) /\ Track("accept", c, ok, ok)
    \/ \E c \in Convs, ok \in BOOLEAN :
           HandleDenyRequest(c, ok) /\ Track("deny", c, ok, ok)
    \/ \E c \in Convs, ok \in BOOLEAN :
           HandleDeleteConversation(c, ok) /\ Track("delete", c, ok, ok)
    \/ \E c \in Convs, ok \in BOOLEAN :
           HandleUnblockConversation(c, ok) /\ Track("unblock", c, ok, ok)
    \/ \E c \in Convs, sent \in BOOLEAN :
           ChatVisit(c, sent) /\ Track("open", c, TRUE, TRUE)
    \/ \E c \in Convs, sent \in BOOLEAN :
           HandleStartDm(c, sent) /\ Track("startdm", c, TRUE, TRUE)

Spec == Init /\ [][Next]_vars

\* ------------------------------------------------ chat page, step by step
Reload(stage, c, msgs) == [stage |-> stage, conv |-> c, msgs |-> msgs]

\* loadConversation removing the blocked marker of the conversation it opens.
LoadConversationUnblocks(c) ==
    /\ Cardinality(reloads \cup {Reload("sync", c, <<>>)}) <= MaxReloads
    /\ consent' = [consent EXCEPT ![c] = IF @ = Denied THEN Unknown ELSE @]
    /\ conversation' = c
    /\ lastRead' = [lastRead EXCEPT ![c] = now]
    /\ blocked' = blocked \ {c}
    /\ reloads' = reloads \cup {Reload("sync", c, <<>>)}
    /\ UNCHANGED <<history, listsDenied, deleted, now, views, messages>>

\* loadConversation(xmtp, c) up to markAsRead: the conversation is fetched, a
\* Denied one is reset to Unknown, setConversation starts the stream effect,
\* the conversation is marked read; the history fetch is left in flight.
LoadConversation(c) ==
    /\ Cardinality(reloads \cup {Reload("sync", c, <<>>)}) <= MaxReloads
    /\ consent' = [consent EXCEPT ![c] = Reopened(@)]
    /\ conversation' = c
    /\ lastRead' = MarkAsRead(lastRead, c)
    /\ reloads' = reloads \cup {Reload("sync", c, <<>>)}
    /\ UNCHANGED <<history, listsDenied, deleted, blocked, now, views, messages>>

\* handleSendMessage(text) up to the consent update: the consent state is
\* read, the text is sent (sent: sendText resolved, else the handler throws),
\* an Unknown or Denied conversation becomes Allowed; the history fetch is left
\* in flight.
HandleSendMessage(sent) ==
    /\ conversation # NoConv
    /\ Total(history, Convs) < MaxMsgs
    /\ Cardinality(reloads \cup {Reload("sync", conversation, <<>>)}) <= MaxReloads
    /\ IF sent
       THEN /\ history' = [history EXCEPT ![conversation] =
                   Append(@, NewMessage(conversation, Me, StringContent("yo")))]
            /\ consent' = [consent EXCEPT ![conversation] = AfterSend(@)]
            /\ reloads' = reloads \cup {Reload("sync", conversation, <<>>)}
       ELSE UNCHANGED <<history, consent, reloads>>
    /\ UNCHANGED <<listsDenied, overlay, now, views, conversation, messages>>

\* await convo.sync(); await convo.messages({ limit: 50n }): the remote store
\* answers a fetch in flight with the history it holds now.
FetchMessages(r) ==
    /\ r \in reloads
    /\ r.stage = "sync"
    /\ reloads' = (reloads \ {r})
                  \cup {Reload("fetched", r.conv, Window(history[r.conv], ChatLimit))}
    /\ UNCHANGED <<remote, overlay, now, views, conversation, messages>>

\* setMessages(msgs): the continuation of a fetch replaces the list.
SetMessages(r) ==
    /\ r \in reloads
    /\ r.stage = "fetched"
    /\ messages' = r.msgs
    /\ reloads' = reloads \ {r}
    /\ UNCHANGED <<remote, overlay, now, views, conversation>>

\* prev.some((m) => m.id === message.id)
Recorded(prev, message) == \E i \in DOMAIN prev : prev[i].id = message.id

\* The updater without its duplicate test.
AppendAlways(prev, message) == Append(prev, message)

\* The updater startStream passes to setMessages.
AppendNew(prev, message) ==
    IF Recorded(prev, message) THEN prev ELSE Append(prev, message)

\* A loop without the test of message.conversationId.
StreamDeliverAny(m) ==
    /\ conversation # NoConv
    /\ m \in AllMessages(history)
    /\ messages' = AppendNew(messages, m)
    /\ lastRead' = MarkAsRead(lastRead, conversation)
    /\ UNCHANGED <<remote, deleted, blocked, now, views, conversation, reloads>>

\* startStream: the stream hands message m to the loop of the open
\* conversation.  The stream may deliver a message of the remote store late
\* and more than once.
StreamDeliver(m) ==
    /\ conversation # NoConv
    /\ m \in AllMessages(history)
    /\ IF m.conv = conversation
       THEN /\ messages' = AppendNew(messages, m)
            /\ lastRead' = MarkAsRead(lastRead, conversation)
       ELSE UNCHANGED <<messages, lastRead>>
    /\ UNCHANGED <<remote, deleted, blocked, now, views, conversation, reloads>>

\* The chat page unmounts (onBack): its state is gone and the continuations
\* still in flight set state of an unmounted page.
CloseChat ==
    /\ conversation # NoConv
    /\ conversation' = NoConv
    /\ messages' = <<>>
    /\ reloads' = {}
    /\ UNCHANGED <<remote, overlay, now, views>>

\* What a run of the chat page remembers: a delivery of an id the list
\* already held is remembered as "dup"; d: the messages the stream delivered
\* for the conversation that is open.
TrackChat(op, d) ==
    /\ last' = [NoOp EXCEPT !.op = op]
    /\ delivered' = d
    /\ UNCHANGED <<fresh, rt, denyDone, dm, inflight, session, stored, landing>>

\* What the run remembers of a loadConversation: the conversation and the
\* consent state it read.
TrackOpen(c) ==
    /\ last' = [op |-> "open", conv |-> c, from |-> consent[c]]
    /\ delivered' = {}
    /\ UNCHANGED <<fresh, rt, denyDone, dm, inflight, session, stored, landing>>

\* What the run remembers of a handleSendMessage: whether sendText resolved,
\* the conversation and the consent state read before the send.
TrackSend(sent) ==
    /\ last' = [op |-> IF sent THEN "sent" ELSE "unsent",
                conv |-> conversation, from |-> consent[conversation]]
    /\ UNCHANGED <<fresh, rt, denyDone, delivered, dm, inflight, session, stored, landing>>

\* The chat page is a page of its own: it is entered with the remote store in
\* any consent state the inbox page can leave it in.
InitChat ==
    /\ consent \in [Convs -> ConsentState]
    /\ history = [c \in Convs |-> <<>>]
    /\ listsDenied = FALSE
    /\ lastRead = [c \in Convs |-> NoTime]
    /\ deleted = {}
    /\ blocked = {}
    /\ now = 0
    /\ conversations = <<>>
    /\ requests = <<>>
    /\ blockedConvos = <<>>
    /\ conversation = NoConv
    /\ messages = <<>>
    /\ reloads = {}
    /\ fresh = FALSE
    /\ last = NoOp
    /\ rt = [conv |-> NoConv, n |-> 0]
    /\ denyDone = {}
    /\ delivered = {}
    /\ dm = NoDm
    /\ OneOwner
    /\ NoLanding
    /\ passes = {}
    /\ dirty = FALSE
    /\ done = NoLists
    /\ SignedIn

\* The chat page entered from an inbox page that has recorded markers: the
\* blocked ids are those of the Denied conversations, any id may be recorded
\* as deleted.
InitOpen ==
    /\ consent \in [Convs -> ConsentState]
    /\ history = [c \in Convs |-> <<>>]
    /\ listsDenied = FALSE
    /\ lastRead = [c \in Convs |-> NoTime]
    /\ deleted \in SUBSET Convs
    /\ blocked = {c \in Convs : consent[c] = Denied}
    /\ now = 0
    /\ conversations = <<>>
    /\ requests = <<>>
    /\ blockedConvos = <<>>
    /\ conversation = NoConv
    /\ messages = <<>>
    /\ reloads = {}
    /\ fresh = FALSE
    /\ last = NoOp
    /\ rt = [conv |-> NoConv, n |-> 0]
    /\ denyDone = {}
    /\ delivered = {}
    /\ dm = NoDm
    /\ OneOwner
    /\ NoLanding
    /\ passes = {}
    /\ dirty = FALSE
    /\ done = NoLists
    /\ SignedIn

NextChat ==
    \/ Tick /\ TrackChat("other", delivered)
    \/ \E c \in Convs, content \in PeerContents :
           PeerSend(c, content) /\ TrackChat("other", delivered)
    \/ \E c \in Convs : LoadConversation(c) /\ TrackOpen(c)
    \/ \E sent \in BOOLEAN : HandleSendMessage(sent) /\ TrackSend(sent)
    \/ \E r \in reloads : FetchMessages(r) /\ TrackChat("other", delivered)
    \/ \E r \in reloads : SetMessages(r) /\ TrackChat("other", delivered)
    \/ \E m \in AllMessages(history) :
           /\ StreamDeliver(m)
           /\ TrackChat(IF m.conv # conversation THEN "foreign"
                        ELSE IF Recorded(messages, m) THEN "dup" ELSE "other",
                        IF m.conv = conversation THEN delivered \cup {m}
                        ELSE delivered)
    \/ CloseChat /\ TrackChat("other", {})

SpecChat == InitChat /\ [][NextChat]_vars

SpecOpen == InitOpen /\ [][NextChat]_vars

\* ------------------------------------- loadConversations, step by step
\* A pass of loadConversations in flight: stage "sync" before
\* conversations.list() answered, "listed" while the loop over the listing
\* runs, "blocked" from the read of the blocked ids on; todo holds the ids the
\* loop of the stage still has to visit, acc the three local arrays.
NewPass == [stage |-> "sync", todo |-> <<>>, acc |-> NoLists]

\* loadConversations(xmtp) is called: a pass starts.
StartPass ==
    /\ Cardinality(passes \cup {NewPass}) <= MaxPasses
    /\ passes' = passes \cup {NewPass}

\* The pass after the listing loop visited an id: when none is left, the
\* same continuation reads getBlockedConvoIds().
AfterListed(todo, acc, blk) ==
    IF todo = <<>>
    THEN [stage |-> "blocked", todo |-> SortedSeq(blk), acc |-> acc]
    ELSE [stage |-> "listed", todo |-> todo, acc |-> acc]

\* The outer catch with the local arrays published from it.
AbortPassPublishes(p) ==
    /\ passes' = passes \ {p}
    /\ Publish(p.acc)
    /\ UNCHANGED <<remote, overlay, now, chat>>

\* The outer catch of loadConversations: setError, nothing is published.
AbortPass(p) ==
    /\ passes' = passes \ {p}
    /\ UNCHANGED <<remote, overlay, now, views, chat>>

\* conversations.sync() and conversations.list() answered.
SyncAndList(p) ==
    /\ p.stage = "sync"
    /\ passes' = (passes \ {p})
                    \cup {AfterListed(Listing(consent, listsDenied), NoLists, blocked)}
    /\ UNCHANGED <<remote, overlay, now, views, chat>>

\* conversations.sync() or conversations.list() threw.
SyncFails(p) ==
    /\ p.stage = "sync"
    /\ AbortPass(p)

\* One turn of the loop over the listing: c.sync(), c.consentState() and
\* c.messages() answered, the item is pushed by consent state.
ClassifyNext(p) ==
    /\ p.stage = "listed"
    /\ LET c == Head(p.todo)
           msgs == Window(history[c], InboxLimit)
           acc == PushByConsent(p.acc, ListedItem(c, msgs, lastRead[c]),
                                consent[c], msgs)
       IN passes' = (passes \ {p}) \cup {AfterListed(Tail(p.todo), acc, blocked)}
    /\ UNCHANGED <<remote, overlay, now, views, chat>>

\* c.sync(), c.consentState() or c.messages() of a listed conversation threw:
\* the loop has no catch of its own.
ClassifyFails(p) ==
    /\ p.stage = "listed"
    /\ AbortPass(p)

Outcomes == {"found", "missing", "throws"}

\* One turn of the loop over the blocked ids.  outcome: getConversationById
\* returned the conversation and its fetches answered ("found"), it returned
\* no conversation ("missing"), or it or a fetch threw ("throws").
FetchBlocked(p, outcome) ==
    /\ p.stage = "blocked"
    /\ p.todo # <<>>
    /\ LET b == Head(p.todo)
           rest == [p EXCEPT !.todo = Tail(p.todo)]
       IN IF AlreadyBlocked(p.acc, b)
          THEN /\ outcome = "found"
               /\ passes' = (passes \ {p}) \cup {rest}
               /\ UNCHANGED blocked
          ELSE IF outcome = "found"
          THEN /\ passes' = (passes \ {p}) \cup
                     {[rest EXCEPT !.acc.blocked =
                          Append(@, BlockedItem(b, Window(history[b], InboxLimit)))]}
               /\ UNCHANGED blocked
          ELSE IF outcome = "missing"
          THEN /\ passes' = (passes \ {p}) \cup {rest}
               /\ UNCHANGED blocked
          ELSE /\ passes' = (passes \ {p}) \cup {rest}
               /\ blocked' = blocked \ {b}
    /\ UNCHANGED <<remote, lastRead, deleted, now, views, chat>>

\* The end of the pass: the three lists are published.
PublishPass(p) ==
    /\ p.stage = "blocked"
    /\ p.todo = <<>>
    /\ Publish(p.acc)
    /\ passes' = passes \ {p}
    /\ UNCHANGED <<remote, overlay, now, chat>>

\* The mount effect calls loadConversations(xmtp).
MountLoads ==
    /\ StartPass
    /\ UNCHANGED <<remote, overlay, now, views, chat>>

\* streamMessages: a message of the stream arrives, loadConversations(xmtp)
\* is called and not awaited.
StreamLoads ==
    /\ AllMessages(history) # {}
    /\ StartPass
    /\ UNCHANGED <<remote, overlay, now, views, chat>>

\* The handlers with their consent update resolved, up to their call of
\* loadConversations.  The Sidebar offers Accept and Deny on the items of
\* requests, Delete on the items of conversations, and the blocked modal
\* offers Unblock on the items of blockedConvos: the lists as they are shown,
\* which a pass in flight may be about to replace.
AcceptLoads(c) ==
    /\ \E i \in DOMAIN requests : requests[i].id = c
    /\ consent' = [consent EXCEPT ![c] = Allowed]
    /\ lastRead' = [lastRead EXCEPT ![c] = now]
    /\ deleted' = deleted \ {c}
    /\ StartPass
    /\ UNCHANGED <<history, listsDenied, blocked, now, views, chat>>

DenyLoads(c) ==
    /\ \E i \in DOMAIN requests : requests[i].id = c
    /\ consent' = [consent EXCEPT ![c] = Denied]
    /\ blocked' = blocked \cup {c}
    /\ StartPass
    /\ UNCHANGED <<history, listsDenied, lastRead, deleted, now, views, chat>>

DeleteLoads(c) ==
    /\ \E i \in DOMAIN conversations : conversations[i].id = c
    /\ deleted' = deleted \cup {c}
    /\ consent' = [consent EXCEPT ![c] = Unknown]
    /\ StartPass
    /\ UNCHANGED <<history, listsDenied, lastRead, blocked, now, views, chat>>

UnblockLoads(c) ==
    /\ \E i \in DOMAIN blockedConvos : blockedConvos[i].id = c
    /\ blocked' = blocked \ {c}
    /\ consent' = [consent EXCEPT ![c] = Unknown]
    /\ StartPass
    /\ UNCHANGED <<history, listsDenied, lastRead, deleted, now, views, chat>>

\* What a run of the passes remembers: the step just taken (op, on
\* conversation c), whether a store change or a failure is not yet followed by
\* the start of a pass (d), and the lists published last (r).
TrackPass(op, c, d, r) ==
    /\ last' = [NoOp EXCEPT !.op = op, !.conv = c]
    /\ dirty' = d
    /\ done' = r
    /\ UNCHANGED <<fresh, rt, denyDone, delivered, dm, session, stored, landing>>

\* The inbox page is entered with the remote store in any consent state the
\* application can leave it in, the blocked ids being those a Deny recorded.
InitPass ==
    /\ consent \in [Convs -> ConsentState]
    /\ history = [c \in Convs |-> <<>>]
    /\ listsDenied \in BOOLEAN
    /\ lastRead = [c \in Convs |-> NoTime]
    /\ deleted = {}
    /\ blocked = {c \in Convs : consent[c] = Denied}
    /\ now = 0
    /\ conversations = <<>>
    /\ requests = <<>>
    /\ blockedConvos = <<>>
    /\ conversation = NoConv
    /\ messages = <<>>
    /\ reloads = {}
    /\ fresh = FALSE
    /\ last = NoOp
    /\ rt = [conv |-> NoConv, n |-> 0]
    /\ denyDone = {}
    /\ delivered = {}
    /\ dm = NoDm
    /\ OneOwner
    /\ NoLanding
    /\ passes = {}
    /\ dirty = TRUE
    /\ done = NoLists
    /\ SignedIn

\* The steps of the passes when every call of the remote store answers.
NextBurst ==
    \/ \E c \in Convs, content \in PeerContents :
           /\ PeerSend(c, content)
           /\ UNCHANGED passes
           /\ TrackPass("other", NoConv, TRUE, done)
    \/ MountLoads /\ TrackPass("other", NoConv, FALSE, done)
    \/ StreamLoads /\ TrackPass("other", NoConv, FALSE, done)
    \/ \E c \in Convs : AcceptLoads(c) /\ TrackPass("other", NoConv, FALSE, done)
    \/ \E c \in Convs : DenyLoads(c) /\ TrackPass("other", NoConv, FALSE, done)
    \/ \E c \in Convs : DeleteLoads(c) /\ TrackPass("other", NoConv, FALSE, done)
    \/ \E c \in Convs : UnblockLoads(c) /\ TrackPass("other", NoConv, FALSE, done)
    \/ \E p \in passes : SyncAndList(p) /\ TrackPass("other", NoConv, dirty, done)
    \/ \E p \in passes : ClassifyNext(p) /\ TrackPass("other", NoConv, dirty, done)
    \/ \E p \in passes :
           /\ FetchBlocked(p, "found")
           /\ TrackPass(IF AlreadyBlocked(p.acc, Head(p.todo)) THEN "other" ELSE "found",
                        Head(p.todo), dirty, done)
    \/ \E p \in passes : PublishPass(p) /\ TrackPass("publish", NoConv, dirty, p.acc)

SpecBurst == InitPass /\ [][NextBurst]_vars

\* The same steps, and the calls of the remote store that fail.
NextPass ==
    \/ NextBurst
    \/ \E p \in passes : SyncFails(p) /\ TrackPass("syncfail", NoConv, TRUE, done)
    \/ \E p \in passes :
           ClassifyFails(p) /\ TrackPass("listfail", Head(p.todo), TRUE, done)
    \/ \E p \in passes, outcome \in Outcomes \ {"found"} :
           /\ FetchBlocked(p, outcome)
           /\ TrackPass(outcome, Head(p.todo), TRUE, done)

SpecPass == InitPass /\ [][NextPass]_vars

\* ------------------------------- passes over an unrecognized consent state
\* The inbox page is entered while c.consentState() answers, for any
\* conversation, a value of the enum or one outside it.
InitTotal ==
    /\ consent \in [Convs -> ConsentState \cup {Unrecognized}]
    /\ history = [c \in Convs |-> <<>>]
    /\ listsDenied \in BOOLEAN
    /\ lastRead = [c \in Convs |-> NoTime]
    /\ deleted = {}
    /\ blocked = {c \in Convs : consent[c] = Denied}
    /\ now = 0
    /\ conversations = <<>>
    /\ requests = <<>>
    /\ blockedConvos = <<>>
    /\ conversation = NoConv
    /\ messages = <<>>
    /\ reloads = {}
    /\ fresh = FALSE
    /\ last = NoOp
    /\ rt = [conv |-> NoConv, n |-> 0]
    /\ denyDone = {}
    /\ delivered = {}
    /\ dm = NoDm
    /\ OneOwner
    /\ NoLanding
    /\ passes = {}
    /\ dirty = TRUE
    /\ done = NoLists
    /\ SignedIn

\* The passes the mount effect and the stream start, every call answering.
NextTotal ==
    \/ \E c \in Convs, content \in PeerContents :
           /\ PeerSend(c, content)
           /\ UNCHANGED passes
           /\ TrackPass("other", NoConv, TRUE, done)
    \/ MountLoads /\ TrackPass("other", NoConv, FALSE, done)
    \/ StreamLoads /\ TrackPass("other", NoConv, FALSE, done)
    \/ \E p \in passes : SyncAndList(p) /\ TrackPass("other", NoConv, dirty, done)
    \/ \E p \in passes :
           ClassifyNext(p) /\ TrackPass("classify", Head(p.todo), dirty, done)
    \/ \E p \in passes :
           /\ FetchBlocked(p, "found")
           /\ TrackPass(IF AlreadyBlocked(p.acc, Head(p.todo)) THEN "other" ELSE "found",
                        Head(p.todo), dirty, done)
    \/ \E p \in passes : PublishPass(p) /\ TrackPass("publish", NoConv, dirty, p.acc)

SpecTotal == InitTotal /\ [][NextTotal]_vars

\* ------------------------------------------------------------- previews
\* What message.content can be: a string; an object with a string under
\* `text` or under `content` (a reply); an object with neither (a
\* reaction); undefined (a content type without a codec).
ObjectContent(field, text) == [kind |-> "object", field |-> field, text |-> text]
AllContents ==
    {StringContent("hi"), ObjectContent("text", "re"), ObjectContent("content", "re"),
     ObjectContent("other", ""), [kind |-> "undefined", field |-> "", text |-> ""]}

\* The i-th message the peer sent in conversation c.
WindowMessage(c, i, content) ==
    [id |-> (c - 1) * MaxWindow + i, conv |-> c, sender |-> Peer, sentAt |-> 0,
     content |-> content]

\* The histories of a conversation of at most MaxWindow messages.
Histories(c) ==
    UNION {{[i \in 1..n |-> WindowMessage(c, i, contents[i])] :
                contents \in [1..n -> AllContents]} : n \in 0..MaxWindow}

\* The inbox page is entered with conversations in any consent state that
\* hold messages of any content.
InitPreview ==
    /\ consent \in [Convs -> ConsentState]
    /\ history \in {h \in [Convs -> UNION {Histories(c) : c \in Convs}] :
                        \A c \in Convs : h[c] \in Histories(c)}
    /\ listsDenied = FALSE
    /\ lastRead = [c \in Convs |-> NoTime]
    /\ deleted = {}
    /\ blocked = {c \in Convs : consent[c] = Denied}
    /\ now = 0
    /\ conversations = <<>>
    /\ requests = <<>>
    /\ blockedConvos = <<>>
    /\ conversation = NoConv
    /\ messages = <<>>
    /\ reloads = {}
    /\ fresh = FALSE
    /\ last = NoOp
    /\ rt = [conv |-> NoConv, n |-> 0]
    /\ denyDone = {}
    /\ delivered = {}
    /\ dm = NoDm
    /\ OneOwner
    /\ NoLanding
    /\ passes = {}
    /\ dirty = FALSE
    /\ done = NoLists
    /\ SignedIn

\* What a run of the previews remembers: the lists were loaded.
TrackPreview(op) ==
    /\ last' = [NoOp EXCEPT !.op = op]
    /\ UNCHANGED <<fresh, rt, denyDone, delivered, dm, inflight, session, stored, landing>>

NextPreview ==
    \/ LoadConversations /\ TrackPreview("load")
    \/ StreamMessages /\ TrackPreview("stream")

SpecPreview == InitPreview /\ [][NextPreview]_vars

\* --------------------------------------------- session and message streams
\* A dispatcher is one call of streamMessages (inbox page) or startStream
\* (chat page): stage "subscribing" while streamAllMessages() is awaited,
\* "open" while the loop waits for a message, "ended" once the function has
\* returned; cancelled: the `cancelled` of its effect run; failed: its catch
\* ran; seen: the ids of the messages its loop body handled.
NewStream(owner) ==
    [owner |-> owner, stage |-> "subscribing", cancelled |-> FALSE,
     failed |-> FALSE, seen |-> {}]

\* The lists the inbox page shows, as a pass returns them.
Shown == [allowed |-> conversations, requests |-> requests, blocked |-> blockedConvos]

\* The cleanup of an effect run: cancelled = true.  An effect run that
\* returned before streamMessages has no cleanup (cur = 0).
Cleanup(ss, cur) == IF cur = 0 THEN ss ELSE [ss EXCEPT ![cur].cancelled = TRUE]

\* The effect of the inbox page on [walletClient, isConnected], run with the
\* store xc, the deps w and k, the page state cl (client), ref
\* (initializingRef), cr (creating), the dispatchers ss and the lists shown.
\* Without a stored client: initializeXmtp() when the wallet is connected,
\* else the render that follows setLoading(false) redirects to the index page
\* unless a client is set or "Reconnecting..." is shown.  With a stored
\* client and no connection: the store is cleared and the page redirects.
\* Else the client is set, the lists are loaded and streamMessages starts.
MountEffect(xc, w, k, cl, ref, cr, ss, lists) ==
    /\ walletClient' = w
    /\ isConnected' = k
    /\ IF ~xc
       THEN /\ xmtpClient' = FALSE
            /\ streams' = ss
            /\ current' = 0
            /\ Publish(lists)
            /\ IF w /\ k
               THEN /\ page' = "inbox"
                    /\ client' = cl
                    /\ initializingRef' = TRUE
                    /\ creating' = (cr \/ ~ref)
               ELSE /\ page' = IF cl \/ cr THEN "inbox" ELSE "index"
                    /\ client' = cl
                    /\ initializingRef' = FALSE
                    /\ creating' = cr
       ELSE IF ~k
            THEN /\ xmtpClient' = FALSE
                 /\ client' = FALSE
                 /\ page' = "index"
                 /\ streams' = ss
                 /\ current' = 0
                 /\ Publish(lists)
                 /\ initializingRef' = FALSE
                 /\ creating' = cr
            ELSE /\ Len(ss) < MaxStreams
                 /\ xmtpClient' = TRUE
                 /\ client' = TRUE
                 /\ page' = "inbox"
                 /\ Publish(LoadLists(consent, history, listsDenied, lastRead, blocked))
                 /\ streams' = Append(ss, NewStream("inbox"))
                 /\ current' = Len(ss) + 1
                 /\ initializingRef' = ref
                 /\ creating' = cr

\* The index page with a stored client redirects to the inbox page; with a
\* connected wallet and no client it creates and stores one first.  The chat
\* page goes back to the inbox page the same way.  The inbox page mounts:
\* its state is the initial one and its effect runs.
EnterInbox ==
    /\ page = "index"
    /\ xmtpClient \/ (walletClient /\ isConnected)
    /\ MountEffect(TRUE, walletClient, isConnected, FALSE, FALSE, creating,
                   streams, NoLists)
    /\ UNCHANGED <<remote, overlay, now, chat>>

\* The browser loads /inbox anew: the in-memory store is empty, the
\* dispatchers of the previous document are gone, the wallet is in state
\* (w, k) when the effect runs.
ReloadInbox(w, k) ==
    /\ page = "inbox"
    /\ MountEffect(FALSE, w, k, FALSE, FALSE, FALSE, <<>>, NoLists)
    /\ UNCHANGED <<remote, overlay, now, chat>>

\* walletClient or isConnected changes.  On the inbox page the cleanup of the
\* last effect run and then the effect run; on the chat page a change of the
\* connection changes `address`, a dep of the stream effect: its cleanup
\* runs and startStream is called again.
WalletChange(w, k) ==
    /\ <<w, k>> # <<walletClient, isConnected>>
    /\ CASE page = "inbox" ->
                /\ MountEffect(xmtpClient, w, k, client, initializingRef,
                               creating, Cleanup(streams, current), Shown)
                /\ UNCHANGED <<remote, overlay, now, chat>>
         [] page = "chat" ->
                /\ walletClient' = w
                /\ isConnected' = k
                /\ IF k # isConnected /\ conversation # NoConv
                   THEN /\ Len(streams) < MaxStreams
                        /\ streams' = Append(Cleanup(streams, current),
                                             NewStream("chat"))
                        /\ current' = Len(streams) + 1
                   ELSE UNCHANGED <<streams, current>>
                /\ UNCHANGED <<remote, overlay, now, views, chat, page,
                               xmtpClient, client, initializingRef, creating>>
         [] OTHER ->
                /\ walletClient' = w
                /\ isConnected' = k
                /\ UNCHANGED <<remote, overlay, now, views, chat, page,
                               xmtpClient, client, initializingRef, creating,
                               streams, current>>

\* initializeXmtp after createXmtpClient: ok: the client is stored and set,
\* the lists are loaded; no dispatcher is started.  Else the catch redirects
\* to the index page and the inbox page unmounts.  Calls in flight at the
\* same time are followed as one.
CreateDone(ok) ==
    /\ page = "inbox"
    /\ creating
    /\ creating' = FALSE
    /\ initializingRef' = FALSE
    /\ IF ok
       THEN /\ xmtpClient' = TRUE
            /\ client' = TRUE
            /\ Publish(LoadLists(consent, history, listsDenied, lastRead, blocked))
            /\ UNCHANGED <<page, streams, current>>
       ELSE /\ page' = "index"
            /\ client' = FALSE
            /\ streams' = Cleanup(streams, current)
            /\ current' = 0
            /\ UNCHANGED <<xmtpClient, views>>
    /\ UNCHANGED <<remote, overlay, now, chat, walletClient, isConnected>>

\* handleDisconnect: the store is cleared, the wallet disconnects, the index
\* page is loaded anew.  The button is not rendered while "Reconnecting..."
\* is shown.
HandleDisconnect ==
    /\ page = "inbox"
    /\ ~creating
    /\ xmtpClient' = FALSE
    /\ client' = FALSE
    /\ walletClient' = FALSE
    /\ isConnected' = FALSE
    /\ page' = "index"
    /\ initializingRef' = FALSE
    /\ streams' = <<>>
    /\ current' = 0
    /\ UNCHANGED <<remote, overlay, now, views, chat, creating>>

\* A conversation of the sidebar is opened: the inbox page unmounts (the
\* cleanup of its effect runs) and the chat page loads the conversation;
\* setConversation starts the stream effect of the chat page.
OpenChat(c) ==
    /\ page = "inbox"
    /\ client
    /\ ~creating
    /\ Len(streams) < MaxStreams
    /\ LoadConversation(c)
    /\ page' = "chat"
    /\ client' = FALSE
    /\ initializingRef' = FALSE
    /\ streams' = Append(Cleanup(streams, current), NewStream("chat"))
    /\ current' = Len(streams) + 1
    /\ UNCHANGED <<xmtpClient, walletClient, isConnected, creating>>

\* onBack: router.push('/inbox'); the chat page unmounts and the cleanup of
\* its stream effect runs.
LeaveChat ==
    /\ page = "chat"
    /\ CloseChat
    /\ page' = "index"
    /\ streams' = Cleanup(streams, current)
    /\ current' = 0
    /\ UNCHANGED <<xmtpClient, walletClient, isConnected, client,
                   initializingRef, creating>>

\* await streamAllMessages() resolves: the loop starts.
Subscribed(i) ==
    /\ streams[i].stage = "subscribing"
    /\ streams' = [streams EXCEPT ![i].stage = "open"]
    /\ UNCHANGED <<remote, overlay, now, views, chat, page, xmtpClient,
                   walletClient, isConnected, client, initializingRef,
                   creating, current>>

\* A loop without `if (cancelled) break;`.
DeliverIgnoresCancel(i, m) ==
    /\ streams[i].stage = "open"
    /\ m \in AllMessages(history)
    /\ m.id \notin streams[i].seen
    /\ streams' = [streams EXCEPT ![i].seen = @ \cup {m.id}]
    /\ IF streams[i].owner = "inbox"
       THEN /\ Publish(LoadLists(consent, history, listsDenied, lastRead, blocked))
            /\ UNCHANGED <<remote, overlay, now, chat>>
       ELSE StreamDeliver(m)
    /\ UNCHANGED <<page, xmtpClient, walletClient, isConnected, client,
                   initializingRef, creating, current>>

\* The stream hands message m to the loop of dispatcher i.  A cancelled
\* dispatcher breaks out of the loop, which closes its stream.  The inbox
\* page reloads the lists, the chat page appends the message.
Deliver(i, m) ==
    /\ streams[i].stage = "open"
    /\ m \in AllMessages(history)
    /\ m.id \notin streams[i].seen
    /\ IF streams[i].cancelled
       THEN /\ streams' = [streams EXCEPT ![i].stage = "ended"]
            /\ UNCHANGED <<remote, overlay, now, views, chat>>
       ELSE /\ streams' = [streams EXCEPT ![i].seen = @ \cup {m.id}]
            /\ IF streams[i].owner = "inbox"
               THEN /\ Publish(LoadLists(consent, history, listsDenied,
                                         lastRead, blocked))
                    /\ UNCHANGED <<remote, overlay, now, chat>>
               ELSE StreamDeliver(m)
    /\ UNCHANGED <<page, xmtpClient, walletClient, isConnected, client,
                   initializingRef, creating, current>>

\* A catch that subscribes again instead of returning.
StreamErrorRetries(i) ==
    /\ streams[i].stage \in {"subscribing", "open"}
    /\ streams' = [streams EXCEPT ![i].stage = "subscribing", ![i].failed = TRUE]
    /\ UNCHANGED <<remote, overlay, now, views, chat, page, xmtpClient,
                   walletClient, isConnected, client, initializingRef,
                   creating, current>>

\* streamAllMessages() rejects, or the stream throws into the loop: the catch
\* logs the error and the function returns.
StreamError(i) ==
    /\ streams[i].stage \in {"subscribing", "open"}
    /\ streams' = [streams EXCEPT ![i].stage = "ended", ![i].failed = TRUE]
    /\ UNCHANGED <<remote, overlay, now, views, chat, page, xmtpClient,
                   walletClient, isConnected, client, initializingRef,
                   creating, current>>

\* What a run of the session remembers: the step just taken.
TrackStream(op) ==
    /\ last' = [NoOp EXCEPT !.op = op]
    /\ UNCHANGED <<fresh, rt, denyDone, delivered, dm, inflight, stored, landing>>

\* Nobody is signed in: the index page, no stored client, no wallet.
InitStream ==
    /\ consent = [c \in Convs |-> Unknown]
    /\ history = [c \in Convs |-> <<>>]
    /\ listsDenied = FALSE
    /\ lastRead = [c \in Convs |-> NoTime]
    /\ deleted = {}
    /\ blocked = {}
    /\ now = 0
    /\ conversations = <<>>
    /\ requests = <<>>
    /\ blockedConvos = <<>>
    /\ conversation = NoConv
    /\ messages = <<>>
    /\ reloads = {}
    /\ fresh = FALSE
    /\ last = NoOp
    /\ rt = [conv |-> NoConv, n |-> 0]
    /\ denyDone = {}
    /\ delivered = {}
    /\ dm = NoDm
    /\ OneOwner
    /\ NoLanding
    /\ passes = {}
    /\ dirty = FALSE
    /\ done = NoLists
    /\ page = "index"
    /\ xmtpClient = FALSE
    /\ walletClient = FALSE
    /\ isConnected = FALSE
    /\ client = FALSE
    /\ initializingRef = FALSE
    /\ creating = FALSE
    /\ streams = <<>>
    /\ current = 0

NextStream ==
    \/ \E c \in Convs, content \in PeerContents :
           PeerSend(c, content) /\ UNCHANGED session /\ TrackStream("other")
    \/ \E w \in BOOLEAN, k \in BOOLEAN : WalletChange(w, k) /\ TrackStream("deps")
    \/ EnterInbox /\ TrackStream("mount")
    \/ \E w \in BOOLEAN, k \in BOOLEAN : ReloadInbox(w, k) /\ TrackStream("mount")
    \/ \E ok \in BOOLEAN : CreateDone(ok) /\ TrackStream("created")
    \/ HandleDisconnect /\ TrackStream("other")
    \/ \E c \in Convs : OpenChat(c) /\ TrackStream("mount")
    \/ LeaveChat /\ TrackStream("other")
    \/ \E r \in reloads :
           FetchMessages(r) /\ UNCHANGED session /\ TrackStream("other")
    \/ \E r \in reloads :
           SetMessages(r) /\ UNCHANGED session /\ TrackStream("other")
    \/ \E i \in DOMAIN streams : Subscribed(i) /\ TrackStream("other")
    \/ \E i \in DOMAIN streams, m \in AllMessages(history) :
           Deliver(i, m) /\ TrackStream("other")
    \/ \E i \in DOMAIN streams : StreamError(i) /\ TrackStream("error")

SpecStream == InitStream /\ [][NextStream]_vars

\* ------------------------------------------------------ handleStartDm
\* createDmWithIdentifier: the conversation with the peer of that address,
\* NoConv when the string is not an address (the call throws).
DmOf(addr) == IF Len(addr) = 1 /\ addr[1] \in Convs THEN addr[1] ELSE NoConv

\* The remote calls of handleStartDm on the trimmed address addr, in order:
\* c is what createDmWithIdentifier answers (NoConv: it throws), state the
\* consent state it reads.
StartDmCalls(addr, reachable, c, state) ==
    <<"canMessage", "createDmWithIdentifier">>
    \o (IF c = NoConv THEN <<>>
        ELSE <<"consentState">>
             \o (IF state = Denied THEN <<"updateConsentState">> ELSE <<>>))

\* handleStartDm setting the consent state to Allowed.
StartDmAllows(state) == Allowed

\* The consent state handleStartDm leaves when state is what it read.
StartDmState(state) == IF state = Denied THEN Unknown ELSE state

\* handleNewDmSubmit and handleStartDm(target); reachable: the answer of
\* canMessage; ok: createDmWithIdentifier resolved.  A target that trims to
\* the empty string returns before any call.  Else the conversation is
\* fetched or created, a Denied one is reset to Unknown and router.push opens
\* the chat page, which loads the conversation.
StartDm(target, reachable, ok) ==
    LET addr == Trim(target)
        c == IF ok THEN DmOf(addr) ELSE NoConv
    IN
    /\ page = "inbox"
    /\ conversation = NoConv
    /\ IF addr = <<>>
       THEN /\ dm' = [target |-> target, reachable |-> TRUE, calls |-> <<>>]
            /\ last' = [NoOp EXCEPT !.op = "blank"]
            /\ UNCHANGED <<remote, overlay, now, views, chat, page>>
       ELSE IF c = NoConv
       THEN /\ dm' = [target |-> target, reachable |-> reachable,
                      calls |-> StartDmCalls(addr, reachable, c, Unknown)]
            /\ last' = [NoOp EXCEPT !.op = "dmfail"]
            /\ UNCHANGED <<remote, overlay, now, views, chat, page>>
       ELSE /\ dm' = [target |-> target, reachable |-> reachable,
                      calls |-> StartDmCalls(addr, reachable, c, consent[c])]
            /\ last' = [op |-> "startdm", conv |-> c, from |-> consent[c]]
            /\ IF \E i \in DOMAIN StartDmCalls(addr, reachable, c, consent[c]) :
                      StartDmCalls(addr, reachable, c, consent[c])[i]
                          = "createDmWithIdentifier"
               THEN /\ Cardinality(reloads \cup {Reload("sync", c, <<>>)}) <= MaxReloads
                    /\ consent' = [consent EXCEPT ![c] = StartDmState(@)]
                    /\ conversation' = c
                    /\ lastRead' = MarkAsRead(lastRead, c)
                    /\ reloads' = reloads \cup {Reload("sync", c, <<>>)}
                    /\ page' = "chat"
                    /\ UNCHANGED <<history, listsDenied, deleted, blocked, now,
                                   views, messages>>
               ELSE UNCHANGED <<remote, overlay, now, views, chat, page>>
    /\ UNCHANGED <<fresh, rt, denyDone, delivered, inflight, stored, landing, xmtpClient,
                   walletClient, isConnected, client, initializingRef,
                   creating, streams, current>>

\* What a run of the new-conversation form remembers of a step that is not a
\* handleStartDm.
TrackDm ==
    /\ last' = NoOp
    /\ UNCHANGED <<fresh, rt, denyDone, delivered, inflight, dm, stored, landing>>

\* onBack of the chat page.
BackToInbox ==
    /\ page = "chat"
    /\ CloseChat
    /\ page' = "inbox"
    /\ UNCHANGED <<xmtpClient, walletClient, isConnected, client,
                   initializingRef, creating, streams, current>>

\* The inbox page of a signed-in user, the remote store in any consent state.
InitDm == InitChat

NextDm ==
    \/ \E target \in Targets, reachable \in BOOLEAN, ok \in BOOLEAN :
           StartDm(target, reachable, ok)
    \/ \E c \in Convs, content \in PeerContents :
           PeerSend(c, content) /\ UNCHANGED session /\ TrackDm
    \/ \E sent \in BOOLEAN :
           HandleSendMessage(sent) /\ UNCHANGED session /\ TrackDm
    \/ \E r \in reloads : FetchMessages(r) /\ UNCHANGED session /\ TrackDm
    \/ \E r \in reloads : SetMessages(r) /\ UNCHANGED session /\ TrackDm
    \/ BackToInbox /\ TrackDm

SpecDm == InitDm /\ [][NextDm]_vars

\* ------------------------------------------- passes when the session ends
\* handleDisconnect up to router.push("/"): the store is cleared, the client
\* of the page is null, the wallet disconnects; the inbox page stays mounted
\* until the route has changed.  Nothing in it touches the passes in flight.
HandleDisconnectStarts ==
    /\ page = "inbox"
    /\ client
    /\ xmtpClient' = FALSE
    /\ client' = FALSE
    /\ walletClient' = FALSE
    /\ isConnected' = FALSE
    /\ UNCHANGED <<remote, overlay, now, views, chat, passes, page,
                   initializingRef, creating, streams, current>>

\* router.push("/") resolved: window.location.reload() loads the index page
\* anew, and what was in flight in the previous document is gone.
DisconnectReloads ==
    /\ page = "inbox"
    /\ ~client
    /\ page' = "index"
    /\ passes' = {}
    /\ UNCHANGED <<remote, overlay, now, views, chat, xmtpClient, walletClient,
                   isConnected, client, initializingRef, creating, streams,
                   current>>

\* The end of a pass whose page has unmounted: the three setters are calls
\* on an unmounted component, which change nothing.
PublishUnmounted(p) ==
    /\ p.stage = "blocked"
    /\ p.todo = <<>>
    /\ passes' = passes \ {p}
    /\ UNCHANGED <<remote, overlay, now, views, chat>>

\* What a run remembers of a step that ends the session.
TrackEnd(op) ==
    /\ last' = [NoOp EXCEPT !.op = op]
    /\ UNCHANGED <<fresh, rt, denyDone, delivered, dm, dirty, done, stored, landing>>

\* The passes of a session that ends by handleDisconnect or by leaving the
\* inbox page for a conversation.  loadConversations is called only from the
\* mounted page with a client; its continuations run whenever their awaited
\* call answers.
NextEnd ==
    \/ /\ page = "inbox"
       /\ client
       /\ MountLoads
       /\ TrackPass("other", NoConv, FALSE, done)
    \/ \E p \in passes : SyncAndList(p) /\ TrackPass("other", NoConv, dirty, done)
    \/ \E p \in passes : ClassifyNext(p) /\ TrackPass("other", NoConv, dirty, done)
    \/ \E p \in passes, outcome \in Outcomes :
           /\ FetchBlocked(p, outcome)
           /\ TrackPass(outcome, Head(p.todo), dirty, done)
    \/ \E p \in passes :
           /\ page = "inbox"
           /\ PublishPass(p)
           /\ TrackPass("publish", NoConv, dirty, p.acc)
    \/ \E p \in passes :
           /\ page # "inbox"
           /\ PublishUnmounted(p)
           /\ TrackPass("other", NoConv, dirty, done)
    \/ HandleDisconnectStarts /\ TrackEnd("disconnect")
    \/ DisconnectReloads /\ TrackEnd("reload")
    \/ \E c \in Convs : OpenChat(c) /\ UNCHANGED passes /\ TrackEnd("open")

SpecEnd == InitPass /\ [][NextEnd]_vars

\* ----------------------------------------------------------- landing page
\* initializeXmtp() past its guards: the ref is set, the state is
\* "initializing" and createXmtpClient is raced against a timeout of 30 s.
StartsCreation ==
    /\ racing + orphans < MaxCreations
    /\ homeRef' = TRUE
    /\ initState' = "initializing"
    /\ racing' = racing + 1

\* The auto-initialize effect, run with the deps w, k, db and the initState
\* of the render: it calls initializeXmtp() when the cleanup is done, the
\* wallet is connected, the state is "disconnected" and the ref is not set.
AutoInitialize(w, k, db) ==
    IF db /\ w /\ k /\ initState = "disconnected" /\ ~homeRef
    THEN StartsCreation
    ELSE UNCHANGED <<initState, homeRef, racing>>

\* The databases are deleted (or the fallback timer fires):
\* setDbCleanupDone(true), and the auto-initialize effect runs.
CleanupDone ==
    /\ page = "index"
    /\ ~dbCleanupDone
    /\ dbCleanupDone' = TRUE
    /\ AutoInitialize(walletClient, isConnected, TRUE)
    /\ UNCHANGED <<orphans, page, xmtpClient, walletClient, isConnected>>

\* walletClient or isConnected changes on the landing page.  Disconnected:
\* the reset effect sets the state and clears the ref, whatever is in
\* flight.  Connected: the auto-initialize effect runs.
LandingWalletChange(w, k) ==
    /\ page = "index"
    /\ <<w, k>> # <<walletClient, isConnected>>
    /\ walletClient' = w
    /\ isConnected' = k
    /\ IF ~w \/ ~k
       THEN /\ initState' = "disconnected"
            /\ homeRef' = FALSE
            /\ UNCHANGED racing
       ELSE AutoInitialize(w, k, dbCleanupDone)
    /\ UNCHANGED <<orphans, dbCleanupDone, page, xmtpClient>>

\* handleRetry, offered in the state "error": the ref is cleared and
\* initializeXmtp() is called.
HandleRetry ==
    /\ page = "index"
    /\ initState = "error"
    /\ IF walletClient /\ isConnected
       THEN StartsCreation
       ELSE /\ homeRef' = FALSE
            /\ UNCHANGED <<initState, racing>>
    /\ UNCHANGED <<orphans, dbCleanupDone, page, xmtpClient, walletClient,
                   isConnected>>

\* createXmtpClient resolves with an inbox id while its initializeXmtp awaits
\* it: the client is stored, the state is "ready", the page redirects to the
\* inbox page.
CreateResolves ==
    /\ racing > 0
    /\ racing' = racing - 1
    /\ xmtpClient' = TRUE
    /\ initState' = "ready"
    /\ homeRef' = FALSE
    /\ page' = "inbox"
    /\ UNCHANGED <<orphans, dbCleanupDone, walletClient, isConnected>>

\* createXmtpClient rejects, or resolves without an inbox id: the catch.
CreateRejects ==
    /\ racing > 0
    /\ racing' = racing - 1
    /\ initState' = "error"
    /\ homeRef' = FALSE
    /\ UNCHANGED <<orphans, dbCleanupDone, page, xmtpClient, walletClient,
                   isConnected>>

\* The timeout of 30 s rejects the race: the catch runs, and createXmtpClient
\* stays pending with nobody awaiting it.
TimeoutFires ==
    /\ racing > 0
    /\ racing' = racing - 1
    /\ orphans' = orphans + 1
    /\ initState' = "error"
    /\ homeRef' = FALSE
    /\ UNCHANGED <<dbCleanupDone, page, xmtpClient, walletClient, isConnected>>

\* A createXmtpClient whose race is over settles: its result is dropped.
OrphanSettles ==
    /\ orphans > 0
    /\ orphans' = orphans - 1
    /\ UNCHANGED <<initState, homeRef, dbCleanupDone, racing, page, xmtpClient,
                   walletClient, isConnected>>

\* What a run of the landing page remembers: the step just taken.
TrackLanding(op) ==
    /\ last' = [NoOp EXCEPT !.op = op]
    /\ UNCHANGED <<remote, overlay, now, views, chat, fresh, rt, denyDone,
                   delivered, dm, inflight, stored, client, initializingRef,
                   creating, streams, current>>

\* The landing page mounts with no stored client and no wallet.
InitLanding == InitStream

NextLanding ==
    \/ CleanupDone /\ TrackLanding("cleanup")
    \/ \E w \in BOOLEAN, k \in BOOLEAN :
           LandingWalletChange(w, k) /\ TrackLanding("deps")
    \/ HandleRetry /\ TrackLanding("retry")
    \/ CreateResolves /\ TrackLanding("created")
    \/ CreateRejects /\ TrackLanding("error")
    \/ TimeoutFires /\ TrackLanding("timeout")
    \/ OrphanSettles /\ TrackLanding("other")

SpecLanding == InitLanding /\ [][NextLanding]_vars

\* ------------------------------------ overlay of two owners, followed
\* useAccount().address changes: another account of the wallet, or none.
SwitchAccount(a) ==
    /\ a # address
    /\ address' = a
    /\ UNCHANGED <<bound, localStorage, read, writes, typed>>

\* walletClient or isConnected changes and the mount effect runs again: its
\* dispatcher and the passes it starts close over the address of this render.
EffectRuns ==
    /\ bound # address
    /\ bound' = address
    /\ UNCHANGED <<address, localStorage, read, writes, typed>>

\* A handler of the latest render writes: Accept (setLastReadTime,
\* removeDeletedConvoId), Deny (addBlockedConvoId), Delete
\* (addDeletedConvoId), Unblock (removeBlockedConvoId), rename (setNickname).
HandlerWrites(c) ==
    /\ writes < MaxWrites
    /\ writes' = writes + 1
    /\ localStorage' \in
           {SetLastReadTime(address, c), RemoveDeletedConvoId(address, c),
            AddBlockedConvoId(address, c), AddDeletedConvoId(address, c),
            RemoveBlockedConvoId(address, c)}
           \cup {SetNickname(address, c, n) : n \in Nicknames \cup {<<>>}}
    /\ UNCHANGED <<address, bound, read, typed>>

\* A pass of loadConversations reads: getLastReadTime and getNickname of a
\* conversation, getDeletedConvoIds, getBlockedConvoIds; a: the address its
\* closure holds.
PassReads(a, c) ==
    /\ a \in {address, bound}
    /\ \E by \in {GetLastReadTime(a, c).by, GetNickname(a, c).by,
                  GetDeletedConvoIds(a).by, GetBlockedConvoIds(a).by} :
           read' = [owner |-> address, by |-> by]
    /\ UNCHANGED <<address, bound, localStorage, writes, typed>>

\* The catch of the loop over the blocked ids: removeBlockedConvoId.
PassWrites(a, c) ==
    /\ a \in {address, bound}
    /\ writes < MaxWrites
    /\ writes' = writes + 1
    /\ localStorage' = RemoveBlockedConvoId(a, c)
    /\ UNCHANGED <<address, bound, read, typed>>

\* What does not change while the overlay of two owners is followed.
TrackOwner ==
    /\ last' = NoOp
    /\ UNCHANGED <<remote, overlay, now, views, chat, fresh, rt, denyDone,
                   delivered, dm, inflight, session, landing>>

\* The first owner has signed in; nothing is stored.
InitOwner ==
    /\ Init
    /\ listsDenied = FALSE

NextOwner ==
    \/ \E a \in Owners \cup {NoOwner} : SwitchAccount(a) /\ TrackOwner
    \/ EffectRuns /\ TrackOwner
    \/ \E c \in Convs : HandlerWrites(c) /\ TrackOwner
    \/ \E a \in Owners \cup {NoOwner}, c \in Convs : PassReads(a, c) /\ TrackOwner
    \/ \E a \in Owners \cup {NoOwner}, c \in Convs : PassWrites(a, c) /\ TrackOwner

SpecOwner == InitOwner /\ [][NextOwner]_vars

\* ---------------------------------------------------------------- rename
\* handleRename with the rename modal open on conversation c and value in
\* its input: the nickname is stored or removed and the lists are reloaded.
HandleRename(c, value) ==
    /\ page = "inbox"
    /\ typed' = value
    /\ localStorage' = SetNickname(address, c, Trim(value))
    /\ IF client
       THEN Publish(LoadLists(consent, history, listsDenied, lastRead, blocked))
       ELSE UNCHANGED views
    /\ UNCHANGED <<remote, overlay, now, chat, address, bound, read, writes>>

\* What a run remembers of a rename: the conversation renamed.
TrackRename(c) ==
    /\ last' = [NoOp EXCEPT !.op = "rename", !.conv = c]
    /\ UNCHANGED <<fresh, rt, denyDone, delivered, dm, inflight, session, landing>>

InitRename == InitOwner

\* Renames among the other writes of the handlers.
NextRename ==
    \/ \E c \in Convs, value \in Targets : HandleRename(c, value) /\ TrackRename(c)
    \/ \E c \in Convs : HandlerWrites(c) /\ TrackOwner

SpecRename == InitRename /\ [][NextRename]_vars

\* ------------------------------------------------------- the lists, read
Ids(list) == {list[i].id : i \in DOMAIN list}
Entries(list) == {list[i] : i \in DOMAIN list}
Count(list, c) == Cardinality({i \in DOMAIN list : list[i].id = c})
Occurrences(c) == Count(conversations, c) + Count(requests, c) + Count(blockedConvos, c)

\* The buckets that hold conversation c.
Buckets(c) ==
    (IF c \in Ids(conversations) THEN {"Inbox"} ELSE {})
    \cup (IF c \in Ids(requests) THEN {"Requests"} ELSE {})
    \cup (IF c \in Ids(blockedConvos) THEN {"Blocked"} ELSE {})

Listed == {c \in Convs : consent[c] # Denied \/ listsDenied}
Fetched(c) == Window(history[c], InboxLimit)

\* ------------------------------------------------------------------ claims
\* C1: after every completed refresh each conversation id occurs in at most
\* one of the published inbox, requests and blocked lists, and at most once
\* within a list.
C1_OneBucket == \A c \in Convs : Occurrences(c) <= 1

\* C2: a refresh assigns a listed conversation to Inbox when its consent is
\* Allowed, to Blocked when Denied, to Requests when Unknown with a
\* peer-authored message in the fetched window, and to no bucket when Unknown
\* without one.
C2_Expected(c) ==
    IF consent[c] = Allowed THEN {"Inbox"}
    ELSE IF consent[c] = Denied THEN {"Blocked"}
    ELSE IF \E i \in DOMAIN Fetched(c) : Fetched(c)[i].sender = Peer
         THEN {"Requests"}
         ELSE {}

C2_Classified == fresh => \A c \in Listed : Buckets(c) = C2_Expected(c)

\* C3: the unread count a refresh computes for a listed conversation is the
\* number of peer-authored messages of the fetched window when no lastReadAt
\* is stored, the number of those sent strictly after lastReadAt when one is
\* stored, and never negative.
C3_Unread(c) ==
    Cardinality({i \in DOMAIN Fetched(c) :
        /\ Fetched(c)[i].sender = Peer
        /\ (lastRead[c] = NoTime \/ Fetched(c)[i].sentAt > lastRead[c])})

\* The list the listing loop pushes c to, <<>> when it pushes c nowhere.
C3_ListOf(c) ==
    IF consent[c] = Allowed THEN conversations
    ELSE IF consent[c] = Denied THEN blockedConvos
    ELSE IF HasPeerMessage(Fetched(c)) THEN requests ELSE <<>>

C3_UnreadCount ==
    fresh =>
        \A c \in Listed :
            /\ (consent[c] = Unknown /\ ~HasPeerMessage(Fetched(c)))
                  \/ c \in Ids(C3_ListOf(c))
            /\ \A i \in DOMAIN C3_ListOf(c) :
                  C3_ListOf(c)[i].id = c =>
                      /\ C3_ListOf(c)[i].unreadCount = C3_Unread(c)
                      /\ C3_ListOf(c)[i].unreadCount >= 0

\* A refresh counted a peer message sent at the very lastReadAt as read.
C3_Witness ==
    /\ fresh
    /\ \E c \in Listed :
          /\ Len(Fetched(c)) = 1
          /\ Fetched(c)[1].sender = Peer
          /\ Fetched(c)[1].sentAt = lastRead[c]
          /\ \E i \in DOMAIN requests :
                requests[i].id = c /\ requests[i].unreadCount = 0

C7_RoundTrip ==
    rt.n = 3 => consent[rt.conv] = Unknown /\ rt.conv \notin blocked

C7_Witness == rt.n = 3

\* C8: after Deny(C) completed, C has consent Denied and its blocked marker
\* set, and every later refresh places C in Blocked and in no other bucket,
\* for as long as no Unblock, reopen or send on C happens.
C8_DenyStaysBlocked ==
    /\ \A c \in Convs :
          (last.op = "deny" /\ last.conv = c) => consent[c] = Denied /\ c \in blocked
    /\ \A c \in denyDone : Buckets(c) = {"Blocked"}

\* C9: after Unblock(C) completed on a blocked conversation the blocked marker
\* of C is cleared and its consent is Unknown, and the refresh that follows
\* places C in Requests and not in Blocked whenever the fetched history of C
\* holds a peer-authored message.
C9_Unblock ==
    \A c \in Convs :
        (last.op = "unblock" /\ last.conv = c) =>
            /\ c \notin blocked
            /\ consent[c] = Unknown
            /\ HasPeerMessage(Fetched(c)) =>
                  c \in Ids(requests) /\ c \notin Ids(blockedConvos)

C9_Witness ==
    \E c \in Convs :
        /\ last = [op |-> "unblock", conv |-> c, from |-> Denied]
        /\ HasPeerMessage(Fetched(c))
        /\ Buckets(c) = {"Requests"}

\* C10: for C with consent Unknown, history [one peer message] and no
\* lastReadAt a refresh places C in Requests with unread count 1; after
\* Accept(C) completed the consent is Allowed, the deleted marker of C is
\* cleared, lastReadAt is the time of the Accept, and the refresh Accept
\* triggers places C in Inbox with unread count 0.
C10_ScenarioA(c) ==
    /\ consent[c] = Unknown
    /\ Len(history[c]) = 1
    /\ history[c][1].sender = Peer
    /\ lastRead[c] = NoTime

C10_Has(list, c, n) ==
    \E i \in DOMAIN list : list[i].id = c /\ list[i].unreadCount = n

C10_Accept ==
    [][\A c \in Convs :
          C10_ScenarioA(c) =>
              /\ fresh => C10_Has(requests, c, 1)
              /\ (last'.op = "accept" /\ last'.conv = c) =>
                    /\ consent'[c] = Allowed
                    /\ c \notin deleted'
                    /\ lastRead'[c] = now
                    /\ C10_Has(conversations', c, 0)
                    /\ ~C10_Has(conversations', c, 1)]_vars

C10_Witness ==
    \E c \in Convs :
        /\ last = [op |-> "accept", conv |-> c, from |-> Unknown]
        /\ Len(history[c]) = 1
        /\ history[c][1].sender = Peer
        /\ lastRead[c] = now
        /\ C10_Has(conversations, c, 0)

\* C5: a delivery of a message id the list of the open conversation already
\* holds leaves the list unchanged, and the list never holds two entries with
\* one id.
C5_NoDuplicate ==
    [][/\ last'.op = "dup" => messages' = messages
       /\ \A i, j \in DOMAIN messages' :
             messages'[i].id = messages'[j].id => i = j]_vars

C5_Witness == last.op = "dup" /\ messages # <<>>

\* C6: every message the stream delivered for the open conversation is in
\* its message list once no history fetch is in flight.
C6_NoLoss ==
    (conversation # NoConv /\ reloads = {}) =>
        \A m \in delivered : Recorded(messages, m)

\* C11: marking a conversation as read never increases its unread count, and
\* the refresh that runs right after the mark, over an unchanged history,
\* computes unread count 0 for it.
C11_MarkAsRead ==
    [][\A c \in Convs :
          history'[c] = history[c] =>
              /\ UnreadCount(Window(history'[c], InboxLimit), lastRead'[c])
                    <= UnreadCount(Window(history[c], InboxLimit), lastRead[c])
              /\ lastRead'[c] # lastRead[c] =>
                    /\ UnreadCount(Window(history'[c], InboxLimit), lastRead'[c]) = 0
                    /\ \A i \in DOMAIN conversations' :
                          conversations'[i].id = c => conversations'[i].unreadCount = 0
                    /\ \A i \in DOMAIN requests' :
                          requests'[i].id = c => requests'[i].unreadCount = 0]_vars

\* A request with a peer message sent before its lastReadAt is listed with
\* unread count 0.
C11_Witness ==
    \E c \in Convs :
        /\ consent[c] = Unknown
        /\ Len(history[c]) = 1
        /\ history[c][1].sender = Peer
        /\ history[c][1].sentAt < lastRead[c]
        /\ C10_Has(requests, c, 0)

\* C12: a refresh lets the blocked marker contribute a Blocked entry only for
\* ids the remote listing does not enumerate: a listed conversation is in
\* Blocked only when its consent state is Denied, whatever its marker says.
C12_MarkerOnlyUnlisted ==
    fresh => \A c \in Listed : c \in Ids(blockedConvos) => consent[c] = Denied

\* C13: when getConversationById returns no conversation for a blocked id the
\* listing does not hold, the refresh removes the id from the blocked ids and
\* pushes no Blocked entry for it.
C13_NotFoundRetracts ==
    [][last'.op = "missing" =>
          /\ last'.conv \notin blocked'
          /\ \A q \in passes' \ passes :
                \A i \in DOMAIN q.acc.blocked : q.acc.blocked[i].id # last'.conv]_vars

\* C14: a fetch or sync of a blocked conversation that throws during a
\* refresh leaves the id among the blocked ids.
C14_TransientKeepsMarker ==
    [][(last'.op = "throws" /\ last'.conv \in blocked) =>
          last'.conv \in blocked']_vars

\* C15: when the sync, consent query or message fetch of a listed
\* conversation fails, the pass skips that conversation alone: it goes on
\* with the rest of the listing, its lists so far kept.
C15_FailureSkipsOne ==
    [][last'.op = "listfail" =>
          \E p \in passes :
              /\ p.stage = "listed"
              /\ Head(p.todo) = last'.conv
              /\ AfterListed(Tail(p.todo), p.acc, blocked) \in passes']_vars

\* C16: a pass that fails before its publish step changes none of the three
\* published lists, and the lists only ever change to the lists of a pass
\* that ran to its end.
C16_FailedPassPublishesNothing ==
    [][/\ last'.op \in {"syncfail", "listfail"} => views' = views
       /\ views' # views =>
             \E p \in passes :
                 /\ p.stage = "blocked"
                 /\ p.todo = <<>>
                 /\ views' = <<p.acc.allowed, p.acc.requests, p.acc.blocked>>]_vars

\* A pass failed in the loop over the listing while lists were shown.
C16_Witness ==
    /\ last.op = "listfail"
    /\ conversations # <<>>
    /\ requests # <<>>

\* C17: with passes overlapping, the published triple is at every instant
\* the three lists of one pass, the one that published last.
C17_OnePassPublished ==
    /\ conversations = done.allowed
    /\ requests = done.requests
    /\ blockedConvos = done.blocked

\* A pass published while another pass, holding other lists, is in flight.
C17_Witness ==
    /\ last.op = "publish"
    /\ \E p \in passes :
          /\ p.stage = "blocked"
          /\ p.acc.allowed # done.allowed
          /\ p.acc.requests # done.requests

\* C18: once every pass has completed, a pass having started after the last
\* change of the stores, the published lists are those of one refresh over
\* the stores as they are.
C18_SettledViewsCurrent ==
    (passes = {} /\ ~dirty) =>
        LET r == LoadLists(consent, history, listsDenied, lastRead, blocked)
        IN views = <<r.allowed, r.requests, r.blocked>>

\* C19: while the inbox page has a client set, exactly one dispatcher of the
\* inbox page is subscribed or listening, whether the client was stored at
\* mount or created by initializeXmtp.  Read in the code's favour: only
\* dispatchers of the inbox page that are not cancelled count, and only runs
\* in which no stream has raised an error.
C19_Listening ==
    {i \in DOMAIN streams : /\ streams[i].owner = "inbox"
                            /\ streams[i].stage # "ended"
                            /\ ~streams[i].cancelled}

C19_OneSubscription ==
    (page = "inbox" /\ client /\ \A i \in DOMAIN streams : ~streams[i].failed)
        => Cardinality(C19_Listening) = 1

\* C20: once the catch of a dispatcher has run, the dispatcher has ended: it
\* handles no further message and does not subscribe again, and the step of
\* the error starts no dispatcher.
C20_ErrorEndsDispatcher ==
    [][/\ \A i \in DOMAIN streams' :
              streams'[i].failed => streams'[i].stage = "ended"
       /\ \A i \in DOMAIN streams :
              (streams[i].failed /\ i \in DOMAIN streams')
                  => streams'[i].seen = streams[i].seen
       /\ last'.op = "error" => Len(streams') = Len(streams)]_vars

\* Reached: a dispatcher of each page has failed without handling the message
\* that another dispatcher handled.
C20_Witness ==
    \E i \in DOMAIN streams, j \in DOMAIN streams, n \in DOMAIN streams :
        /\ streams[i].owner = "inbox" /\ streams[i].failed /\ streams[i].seen = {}
        /\ streams[j].owner = "chat" /\ streams[j].failed /\ streams[j].seen = {}
        /\ ~streams[n].failed /\ streams[n].seen # {}

\* C21: a run of Accept, Deny, Delete or Unblock whose updateConsentState
\* fails leaves lastRead, the deleted ids and the blocked ids as they were.
C21_FailedHandler(c) ==
    \/ HandleAcceptRequest(c, FALSE)
    \/ HandleDenyRequest(c, FALSE)
    \/ HandleDeleteConversation(c, FALSE)
    \/ HandleUnblockConversation(c, FALSE)

C21_OverlayAfterRemote ==
    [][\A c \in Convs : C21_FailedHandler(c) => overlay' = overlay]_vars

\* C22: a handler started from a list the page shows changes the consent
\* state or the overlay only from the consent states of its precondition:
\* Accept from Unknown, Deny from Unknown or Allowed, Delete from Allowed,
\* Unblock from Denied.
C22_Only(c, states) ==
    consent[c] \in states \/ (consent' = consent /\ overlay' = overlay)

C22_Preconditions ==
    [][\A c \in Convs :
           /\ AcceptLoads(c) => C22_Only(c, {Unknown})
           /\ DenyLoads(c) => C22_Only(c, {Unknown, Allowed})
           /\ DeleteLoads(c) => C22_Only(c, {Allowed})
           /\ UnblockLoads(c) => C22_Only(c, {Denied})]_vars

C25_Blank(t) == \A i \in DOMAIN t : t[i] = Blank

C25_BlankTargetRejected ==
    [][(last'.op \in {"blank", "dmfail", "startdm"} /\ C25_Blank(dm'.target))
          => /\ dm'.calls = <<>>
             /\ UNCHANGED <<remote, overlay, now, views, chat, page>>]_vars

\* Reached: a target of whitespace only was submitted while the chat page of
\* an earlier handleStartDm had changed the stores.
C25_Witness ==
    /\ last.op = "blank"
    /\ dm.target # <<>>
    /\ C25_Blank(dm.target)
    /\ \E c \in Convs : lastRead[c] # NoTime

\* C26: after handleStartDm has opened conversation C, the consent state of C
\* is Unknown when it was Denied and is what it was otherwise, hence Allowed
\* only when it was Allowed; and C is opened also when canMessage answered
\* that the address is not reachable.
C26_Made(call) == \E i \in DOMAIN dm.calls : dm.calls[i] = call

C26_StartDmNeverAllows ==
    last.op = "startdm" =>
        /\ consent[last.conv] = IF last.from = Denied THEN Unknown ELSE last.from
        /\ last.from # Allowed => consent[last.conv] # Allowed
        /\ C26_Made("createDmWithIdentifier")
        /\ conversation = last.conv
        /\ C26_Made("updateConsentState") <=> last.from = Denied

\* Reached: a Denied conversation was opened by handleStartDm although its
\* peer was not reachable.
C26_Witness ==
    /\ last.op = "startdm"
    /\ last.from = Denied
    /\ ~dm.reachable
    /\ consent[last.conv] = Unknown
    /\ conversation = last.conv

\* C27: loadConversation on a Denied conversation sets its consent state to
\* Unknown, on any other conversation leaves the consent state as it was, and
\* in either case changes neither the consent state of another conversation
\* nor the blocked ids nor the deleted ids.
C27_OpenResetsDenied ==
    [][last'.op = "open" =>
          /\ consent' = [consent EXCEPT ![last'.conv] =
                            IF @ = Denied THEN Unknown ELSE @]
          /\ last'.from = consent[last'.conv]
          /\ blocked' = blocked
          /\ deleted' = deleted]_vars

\* Reached: a Denied conversation with its blocked and deleted markers set was
\* opened.
C27_Witness ==
    /\ last.op = "open"
    /\ last.from = Denied
    /\ consent[last.conv] = Unknown
    /\ last.conv \in blocked
    /\ last.conv \in deleted


\* C28: overlay data is owner-scoped: no read made while one owner is
\* connected returns a value written while another owner was connected, and
\* no write made while one owner is connected changes what another owner
\* reads, for any sequence of writes and switches of account.
C28_KeysOf(a) == {KeyOf(field, a, c) : field \in Fields, c \in Convs}

C28_OwnerScoped ==
    [][/\ read'.by \in Owners /\ read'.owner \in Owners => read'.by = read'.owner
       /\ address \in Owners =>
              \A a \in Owners \ {address} :
                  \A k \in C28_KeysOf(a) : localStorage'[k].val = localStorage[k].val]_vars


\* C29: once the session has ended (the identity disconnects or the view is
\* torn down), a refresh pass that was in flight is cancelled: from then on
\* it publishes no view lists and performs no overlay write.
C29_PassCancelled ==
    [][~client /\ passes' # passes => views' = views /\ overlay' = overlay]_vars


\* C30: once a stream subscription has been cancelled, no message delivered
\* afterwards on it triggers a refresh, appends to the message list or
\* writes lastRead: a step that changes only dispatchers already cancelled
\* leaves the lists, the messages and lastRead as they were, and such a
\* dispatcher handles no further message.
C30_CancelledStep ==
    /\ streams' # streams
    /\ Len(streams') = Len(streams)
    /\ \A i \in DOMAIN streams : streams'[i] # streams[i] => streams[i].cancelled

C30_CancelledIsSilent ==
    [][C30_CancelledStep =>
           /\ views' = views
           /\ messages' = messages
           /\ lastRead' = lastRead
           /\ \A i \in DOMAIN streams : streams'[i].seen = streams[i].seen]_vars

\* Reached: a dispatcher of each page was cancelled, received a message of
\* the remote store afterwards and left its loop without handling it.
C30_Witness ==
    \E i \in DOMAIN streams, j \in DOMAIN streams, m \in AllMessages(history) :
        /\ streams[i].owner = "inbox" /\ streams[j].owner = "chat"
        /\ \A n \in {i, j} :
               /\ streams[n].cancelled
               /\ streams[n].stage = "ended"
               /\ ~streams[n].failed
               /\ m.id \notin streams[n].seen


\* C31: classification is total: a listed conversation whose consent value is
\* none of Allowed, Unknown, Denied is placed in no list, in a pass in flight
\* or on the page, and the pass goes on: the lists it publishes hold every
\* Allowed and every Denied conversation.
C31_Ids(list) == {list[i].id : i \in DOMAIN list}

C31_Placed(r) == C31_Ids(r.allowed) \cup C31_Ids(r.requests) \cup C31_Ids(r.blocked)

C31_ClassificationTotal ==
    /\ \A c \in Convs :
           consent[c] = Unrecognized =>
               /\ c \notin C31_Placed(Shown)
               /\ \A p \in passes : c \notin C31_Placed(p.acc)
    /\ last.op = "publish" =>
           \A c \in Convs :
               /\ consent[c] = Allowed => c \in C31_Ids(conversations)
               /\ consent[c] = Denied => c \in C31_Ids(blockedConvos)

\* Reached: a pass has published after it visited conversation 1, whose
\* consent value is unrecognized and which holds a message of the peer, and
\* then conversation 2, which is Allowed and in the inbox list.
C31_Witness ==
    /\ last.op = "publish"
    /\ consent[1] = Unrecognized
    /\ history[1] # <<>>
    /\ consent[2] = Allowed
    /\ 2 \in C31_Ids(conversations)
    /\ 1 \notin C31_Placed(Shown)


\* C32: lastRead of a conversation is set to the current time when the
\* conversation becomes the open one and each time the stream delivers a
\* message for it while it is open, so a refresh that runs while it stays
\* open counts none of the delivered messages as unread.
C32_Delivered(msgs) == SelectSeq(msgs, LAMBDA m : m \in delivered)

C32_ReadWhileOpen ==
    [][/\ last'.op = "open" => lastRead'[last'.conv] = now'
       /\ (last'.op = "dup" \/ (delivered' # delivered /\ delivered' # {}))
              => lastRead'[conversation'] = now'
       /\ conversation' # NoConv =>
              UnreadCount(C32_Delivered(Window(history'[conversation'], InboxLimit)),
                          lastRead'[conversation']) = 0]_vars

\* Reached: the open conversation holds a peer message sent after the clock
\* advanced, the stream has delivered it, and the count of a refresh is 0.
C32_Witness ==
    /\ conversation # NoConv
    /\ \E m \in delivered :
           /\ m.conv = conversation
           /\ m.sender = Peer
           /\ m.sentAt > 0
           /\ lastRead[conversation] = m.sentAt
    /\ UnreadCount(Window(history[conversation], InboxLimit), lastRead[conversation]) = 0


\* C33: the preview a refresh derives for a conversation is the text of the
\* most recent message of the fetched window when that content is a string,
\* and the empty text when the window is empty or the content is not a
\* string.
C33_Expected(msgs) ==
    IF msgs = <<>> THEN ""
    ELSE IF msgs[Len(msgs)].content.kind = "string"
         THEN msgs[Len(msgs)].content.text
         ELSE ""

C33_Previews(list) ==
    \A i \in DOMAIN list :
        list[i].lastMessage = C33_Expected(Window(history[list[i].id], InboxLimit))

C33_Preview ==
    last.op \in {"load", "stream"} =>
        /\ C33_Previews(conversations)
        /\ C33_Previews(requests)
        /\ C33_Previews(blockedConvos)


\* C34: Rename with a non-blank value stores the value without its leading
\* and trailing blanks as the nickname of the conversation; Rename with a
\* blank or empty value removes the nickname; in both cases every other item
\* of localStorage (lastread, deleted ids, blocked ids, the nicknames of the
\* other conversations) is unchanged.
C34_NonBlank(v) == {i \in DOMAIN v : v[i] # Blank}

C34_Trimmed(v) ==
    LET first == CHOOSE i \in C34_NonBlank(v) : \A j \in C34_NonBlank(v) : i <= j
        final == CHOOSE i \in C34_NonBlank(v) : \A j \in C34_NonBlank(v) : j <= i
    IN [i \in 1..(final - first + 1) |-> v[first + i - 1]]

C35_ForeignDelivery ==
    [][last'.op = "foreign" => messages' = messages /\ lastRead' = lastRead]_vars

\* Reached: conversation 1 is open and was marked read at time 0, the clock
\* has advanced, and the stream has just delivered a message of
\* conversation 2.
C35_Witness ==
    /\ last.op = "foreign"
    /\ conversation = 1
    /\ history[2] # <<>>
    /\ now > 0
    /\ lastRead[1] = 0
    /\ lastRead[2] = NoTime
    /\ \A i \in DOMAIN messages : messages[i].conv = 1


C37_BlockedOnlyIfDenied ==
    \A c \in Convs : c \in blocked => consent[c] = Denied


\* C38: on the landing page at most one client creation is pending at any
\* time.
C38_OneCreation == racing + orphans <= 1

\* C39: while the wallet is disconnected the init state of the landing page
\* is "disconnected", and a step taken while it is disconnected stores no
\* client.
C39_StaysDisconnected ==
    [][~(walletClient' /\ isConnected') =>
           /\ initState' = "disconnected"
           /\ ~(walletClient /\ isConnected) => (xmtpClient' => xmtpClient)]_vars

====
